---- MODULE Spec2Model ----
(***************************************************************************)
(* A model of bench.py (microsoft/msccl-leaderboard): main() and           *)
(* run_benchmark() as a sequential state machine, the string functions     *)
(* they rely on as operators over character strings.                       *)
(***************************************************************************)
EXTENDS Integers, Sequences, FiniteSets, TLC

(***************************************************************************)
(* Bounds of the model.                                                    *)
(***************************************************************************)
\* longest token sequence after the launcher in the segmentation universe
MaxArgs == 4
\* most directory entries in the run universe
MaxFiles == 2
\* invocations of main() on one output directory
MaxRuns == 2
\* lines of a benchmark output in the log universe
MaxLines == 2
\* data lines of a log in the universe of generate_graphs.py
MaxSizes == 2

(***************************************************************************)
(* Python string primitives.  Strings are character sequences; indices     *)
(* are 1-based.                                                            *)
(***************************************************************************)
Char(s, i) == SubSeq(s, i, i)

\* str.endswith
EndsWith(s, t) == Len(s) >= Len(t) /\ SubSeq(s, Len(s) - Len(t) + 1, Len(s)) = t

\* str.startswith
StartsWith(s, t) == Len(s) >= Len(t) /\ SubSeq(s, 1, Len(t)) = t

\* the `in` operator on strings
Contains(s, t) == \E i \in 1..(Len(s) - Len(t) + 1) : SubSeq(s, i, i + Len(t) - 1) = t

\* 0 when t does not occur in s from position `from` on, else the first position
FindFrom(s, t, from) ==
    LET hits == {i \in from..(Len(s) - Len(t) + 1) : SubSeq(s, i, i + Len(t) - 1) = t}
    IN  IF hits = {} THEN 0 ELSE CHOOSE i \in hits : \A j \in hits : i <= j

LowerLetters == "abcdefghijklmnopqrstuvwxyz"
UpperLetters == "ABCDEFGHIJKLMNOPQRSTUVWXYZ"

\* the letter pairs of str.upper and str.lower (ASCII)
ToUpper == [c \in {Char(LowerLetters, k) : k \in 1..26} |-> Char(UpperLetters, FindFrom(LowerLetters, c, 1))]
ToLower == [c \in {Char(UpperLetters, k) : k \in 1..26} |-> Char(LowerLetters, FindFrom(UpperLetters, c, 1))]

UpperChar(c) == IF c \in DOMAIN ToUpper THEN ToUpper[c] ELSE c

LowerChar(c) == IF c \in DOMAIN ToLower THEN ToLower[c] ELSE c

RECURSIVE MapChars(_, _, _)
MapChars(s, i, upper) ==
    IF i > Len(s) THEN ""
    ELSE (IF upper THEN UpperChar(Char(s, i)) ELSE LowerChar(Char(s, i))) \o MapChars(s, i + 1, upper)

\* str.upper and str.lower (ASCII)
Upper(s) == MapChars(s, 1, TRUE)
Lower(s) == MapChars(s, 1, FALSE)

\* python whitespace (str.split, str.strip, regex \s) and regex \d
IsSpace(c) == c \in {" ", "\t", "\n", "\r"}
IsDigit(c) == c \in {"0", "1", "2", "3", "4", "5", "6", "7", "8", "9"}

RECURSIVE SkipSpaces(_, _)
SkipSpaces(s, i) == IF i <= Len(s) /\ IsSpace(Char(s, i)) THEN SkipSpaces(s, i + 1) ELSE i

RECURSIVE SkipDigits(_, _)
SkipDigits(s, i) == IF i <= Len(s) /\ IsDigit(Char(s, i)) THEN SkipDigits(s, i + 1) ELSE i

RECURSIVE SkipWord(_, _)
SkipWord(s, i) == IF i <= Len(s) /\ ~IsSpace(Char(s, i)) THEN SkipWord(s, i + 1) ELSE i

RECURSIVE SplitFrom(_, _)
SplitFrom(s, i) ==
    LET b == SkipSpaces(s, i)
        e == SkipWord(s, b)
    IN  IF b > Len(s) THEN <<>> ELSE <<SubSeq(s, b, e - 1)>> \o SplitFrom(s, e)

\* str.split() with no separator: the whitespace-separated words
Split(s) == SplitFrom(s, 1)

RECURSIVE LastNonSpace(_, _)
LastNonSpace(s, i) == IF i >= 1 /\ IsSpace(Char(s, i)) THEN LastNonSpace(s, i - 1) ELSE i

\* str.strip()
Strip(s) == SubSeq(s, SkipSpaces(s, 1), LastNonSpace(s, Len(s)))

RECURSIVE JoinFrom(_, _)
JoinFrom(words, i) ==
    IF i > Len(words) THEN ""
    ELSE IF i = Len(words) THEN words[i]
    ELSE words[i] \o " " \o JoinFrom(words, i + 1)

\* " ".join(words)
Join(words) == JoinFrom(words, 1)

RECURSIVE ReprFrom(_, _)
ReprFrom(words, i) ==
    IF i > Len(words) THEN ""
    ELSE IF i = Len(words) THEN "'" \o words[i] \o "'"
    ELSE "'" \o words[i] \o "', " \o ReprFrom(words, i + 1)

\* str() of a list of plain file names
ListRepr(words) == "[" \o ReprFrom(words, 1) \o "]"

DigitValue(c) == FindFrom("0123456789", c, 1) - 1

RECURSIVE DigitsValue(_, _, _)
DigitsValue(s, i, acc) ==
    IF i > Len(s) THEN acc ELSE DigitsValue(s, i + 1, acc * 10 + DigitValue(Char(s, i)))

\* int(s) for the decimal literals python accepts: surrounding whitespace, an
\* optional sign, digits.  ok = FALSE stands for ValueError.
IntOf(s) ==
    LET t == Strip(s)
        signed == Len(t) >= 1 /\ Char(t, 1) \in {"+", "-"}
        d == IF signed THEN SubSeq(t, 2, Len(t)) ELSE t
        isNum == Len(d) >= 1 /\ SkipDigits(d, 1) = Len(d) + 1
    IN  IF ~isNum THEN [ok |-> FALSE, val |-> 0]
        ELSE [ok |-> TRUE,
              val |-> IF signed /\ Char(t, 1) = "-" THEN 0 - DigitsValue(d, 1, 0)
                      ELSE DigitsValue(d, 1, 0)]

\* os.path.join(a, b) on posix
PathJoin(a, b) ==
    IF StartsWith(b, "/") \/ a = "" THEN b
    ELSE IF EndsWith(a, "/") THEN a \o b
    ELSE a \o "/" \o b

RECURSIVE GlobMatch(_, _, _, _)
GlobMatch(name, i, pat, j) ==
    IF j > Len(pat) THEN i > Len(name)
    ELSE IF Char(pat, j) = "*"
         THEN GlobMatch(name, i, pat, j + 1) \/ (i <= Len(name) /\ GlobMatch(name, i + 1, pat, j))
    ELSE IF i > Len(name) THEN FALSE
    ELSE IF Char(pat, j) = "?" THEN GlobMatch(name, i + 1, pat, j + 1)
    ELSE Char(pat, j) = Char(name, i) /\ GlobMatch(name, i + 1, pat, j + 1)

\* fnmatch.fnmatch(filename, filter) on posix, for patterns of literals, * and ?
fnmatch(filename, pat) == GlobMatch(filename, 1, pat, 1)

(***************************************************************************)
(* Program constants.                                                      *)
(***************************************************************************)
NCCL_TESTS_SUFFIX == "nccl-tests/build"
NCCL_LAUNCH_SUFFIX == "launcher.sh"
separator == "\t"
result_file_name == "results.txt"

\* root.attrib of parse_msccl_xml(exampleMCCLInput)
exampleMCCLInput ==
    [tag |-> "algo",
     attrs |-> [name |-> "Allgather(n=16)-DistributedRelayedSwitch(local=DGX1,copies=2)-steps=20-gurobisol-improve-1630536923",
                proto |-> "Simple", ngpus |-> "16", coll |-> "allgather", inplace |-> "1"]]

\* exampleOutput, as the lines readlines() returns
exampleOutput == <<
    "\n",
    "[1,5]<stdout>:az-eus-v100-32gb-5-worker-zphjiy:18101:18135 [5] NCCL INFO comm 0x7f3804000fa0 rank 5 nranks 16 cudaDev 5 busId 3bfd00000 - Init COMPLETE\n",
    "[1,0]<stdout>:NCCL version 2.12.12.MSCCL.0.7.3+cuda11.6\n",
    "[1,2]<stdout>:az-eus-v100-32gb-5-worker-zphjiy:18098:18143 [2] NCCL INFO comm 0x7f0ec0000fa0 rank 2 nranks 16 cudaDev 2 busId d34d00000 - Init COMPLETE\n",
    "[1,4]<stdout>:az-eus-v100-32gb-5-worker-zphjiy:18093:18141 [4] NCCL INFO comm 0x7f76ac000fa0 rank 4 nranks 16 cudaDev 4 busId bd1000000 - Init COMPLETE\n",
    "[1,0]<stdout>:az-eus-v100-32gb-5-worker-zphjiy:18075:18131 [0] NCCL INFO comm 0x7f26f0000fa0 rank 0 nranks 16 cudaDev 0 busId f6a800000 - Init COMPLETE\n",
    "[1,0]<stdout>:#\n",
    "[1,0]<stdout>:#                                                              out-of-place                       in-place\n",
    "[1,0]<stdout>:#       size         count      type   redop    root     time   algbw   busbw #wrong     time   algbw   busbw #wrong\n",
    "[1,0]<stdout>:#        (B)    (elements)                               (us)  (GB/s)  (GB/s)            (us)  (GB/s)  (GB/s)\n",
    "[1,0]<stdout>:az-eus-v100-32gb-5-worker-zphjiy:18075:18075 [0] NCCL INFO Launch mode Parallel\n",
    "[1,0]<stdout>:        1024           256     float     sum      -1    75.18    0.01    0.03      0    78.30    0.01    0.02      0\n",
    "[1,0]<stdout>:        2048           512     float     sum      -1    79.54    0.03    0.05      0    82.56    0.02    0.05      0\n",
    "[1,0]<stdout>:        4096          1024     float     sum      -1    84.29    0.05    0.09      0    116.1    0.04    0.07      0\n",
    "[1,0]<stdout>:        8192          2048     float     sum      -1    115.0    0.07    0.13      0    111.7    0.07    0.14      0\n",
    "[1,0]<stdout>:       16384          4096     float     sum      -1    129.4    0.13    0.24      0    126.7    0.13    0.24      0\n",
    "[1,0]<stdout>:       32768          8192     float     sum      -1    208.2    0.16    0.30      0    205.5    0.16    0.30      0\n",
    "[1,0]<stdout>:       65536         16384     float     sum      -1    313.7    0.21    0.39      0    340.9    0.19    0.36      0\n",
    "[1,0]<stdout>:      131072         32768     float     sum      -1    297.7    0.44    0.83      0    297.5    0.44    0.83      0\n",
    "[1,0]<stdout>:      262144         65536     float     sum      -1    521.7    0.50    0.94      0    503.8    0.52    0.98      0\n",
    "[1,0]<stdout>:      524288        131072     float     sum      -1    895.8    0.59    1.10      0    901.9    0.58    1.09      0\n",
    "[1,0]<stdout>:     1048576        262144     float     sum      -1   1255.6    0.84    1.57      0   1215.6    0.86    1.62      0\n",
    "[1,0]<stdout>:     2097152        524288     float     sum      -1   1878.7    1.12    2.09      0   1876.8    1.12    2.10      0\n",
    "[1,0]<stdout>:     4194304       1048576     float     sum      -1   2246.7    1.87    3.50      0   2229.5    1.88    3.53      0\n",
    "[1,0]<stdout>:     8388608       2097152     float     sum      -1   4018.2    2.09    3.91      0   4017.9    2.09    3.91      0\n",
    "[1,0]<stdout>:    16777216       4194304     float     sum      -1   7561.5    2.22    4.16      0   7561.6    2.22    4.16      0\n",
    "[1,0]<stdout>:    33554432       8388608     float     sum      -1    13589    2.47    4.63      0    13595    2.47    4.63      0\n",
    "[1,0]<stdout>:    67108864      16777216     float     sum      -1    26102    2.57    4.82      0    26108    2.57    4.82      0\n",
    "[1,0]<stdout>:   134217728      33554432     float     sum      -1    51259    2.62    4.91      0    51135    2.62    4.92      0\n",
    "[1,0]<stdout>:   268435456      67108864     float     sum      -1   101295    2.65    4.97      0   101395    2.65    4.96      0\n" >>

\* the text run_benchmark writes in test mode before exampleOutput in the MSCCL file
TestModeParsedLine(filename) ==
    "File " \o filename \o " Parsed MSCCL (write this to test validation that the file contains the string Parsed MSSCL)"

\* format_header_row(separator)
format_header_row(sep) ==
    "Collective" \o sep \o "Filter" \o sep \o "TimeOfTest" \o sep \o "nGPUs"
    \o sep \o "Protocol" \o sep \o "Library" \o sep \o "NcclVersion" \o sep \o "InPlace"
    \o sep \o "Size" \o sep \o "Time" \o sep \o "MSCCL_Algo_Name" \o sep \o "MSCCL_File" \o "\n"

\* stand-in for datetime.now().strftime(...), fixed for one invocation
time_of_test == "2023-06-01 12:00:00"

\* python None / an unbound local, for values that are otherwise one string
None == <<>>
Some(v) == <<v>>

(***************************************************************************)
(* The command line after the script's own options and what argparse       *)
(* took from it: mode, directory, filter, outputDirectory.                 *)
(***************************************************************************)
directory == "in"
outputDirectory == "out"
UsageText ==
    "usage: usage: bench.py [-h] [-r {test,run}] [-d DIRECTORY] -f FILTER -o\n"
    \o "                OUTPUTDIRECTORY\n"
    \o " <mpirun command> <mpirun arguments> <optional launcher.sh> <path to nccl-tests/build> <nccl-tests arguments>"
    \o "\nUse --help to see the full list of arguments."

(***************************************************************************)
(* Pure pieces of main(), run_benchmark() and parse_test_log().            *)
(***************************************************************************)
\* the script's --filter option
filter == "*.xml"

\* main(): index of the first argument ending in "mpirun", 0 for None
mpirun_index(argv) ==
    LET hits == {i \in 1..Len(argv) : EndsWith(argv[i], "mpirun")}
    IN  IF hits = {} THEN 0 ELSE CHOOSE i \in hits : \A j \in hits : i <= j

\* main(): the launcher checks of run mode and of test mode; TRUE when the
\* check prints its error and returns
MpirunRejected(m, mpirunCmd, e) ==
    IF m = "run"
    THEN IF ~Contains(mpirunCmd, "/") THEN ~e.which
         ELSE e.exists /\ ~e.xok
    ELSE ~EndsWith(mpirunCmd, "mpirun")

\* a loop that stops at the helper script only and so reads on past the
\* benchmark directory
ScanContinues_PastDirectory(args) ==
    /\ Len(args) > 0
    /\ ~EndsWith(args[1], NCCL_LAUNCH_SUFFIX)

\* main(): the condition of the while loop that fills mpirun_args
ScanContinues(args) ==
    /\ Len(args) > 0
    /\ ~EndsWith(args[1], NCCL_TESTS_SUFFIX)
    /\ ~EndsWith(args[1], NCCL_LAUNCH_SUFFIX)

\* a reserved-variable test that looks at the -x alone
IsReservedPair_AnyX(args) == args[1] = "-x"

\* a reserved-variable test that compares the whole token with the name
IsReservedPair_ExactName(args) == args[1] = "-x" /\ args[2] = "MSCCL_XML_FILES"

\* main(): the reserved-variable test of the loop, made on a list of at least two
IsReservedPair(args) == args[1] = "-x" /\ StartsWith(args[2], "MSCCL_XML_FILES=")

ReservedMessage ==
    "Error: MSCCL_XML_FILES environment variable should not be set in the mpirun command line since the --directory argument will be used instead."

TestsNotFoundMessage == "Error: nccl-tests/build not found in command line arguments"

\* run_benchmark(): the table from the collective kind to the nccl test name,
\* "" where the code raises
ncclAlgorithm(mscclCollective) ==
    IF Lower(mscclCollective) = "allreduce" THEN "all_reduce"
    ELSE IF Lower(mscclCollective) = "allgather" THEN "all_gather"
    ELSE IF Lower(mscclCollective) = "alltoall" THEN "all_to_all"
    ELSE ""

ncclPerfTest(attrs) == ncclAlgorithm(attrs.coll) \o "_perf"

\* command lines that leave the process count to the user's launcher options
npParameter_Omitted(attrs) == ""

npParameter(attrs) == " -np " \o attrs.ngpus

ncclOutputFile(fname) == PathJoin(outputDirectory, fname \o "_nccl_result.txt")

mscclOutputFile(fname) == PathJoin(outputDirectory, fname \o "_msccl_result.txt")

mscclXMLFile(fname) == " -x MSCCL_XML_FILES=" \o PathJoin(directory, fname)

\* a baseline command line that leaves the helper script out
ncclCommandLine_WithoutLaunch(attrs, fname, mpirunCmd, mpirunArgs, ncclLaunch, ncclTests, ncclTestArgs) ==
    mpirunCmd \o " " \o npParameter(attrs) \o " " \o Join(mpirunArgs) \o " "
    \o " " \o PathJoin(ncclTests, ncclPerfTest(attrs)) \o " " \o Join(ncclTestArgs)
    \o " > " \o ncclOutputFile(fname)

\* run_benchmark(): the two f-strings
ncclCommandLine(attrs, fname, mpirunCmd, mpirunArgs, ncclLaunch, ncclTests, ncclTestArgs) ==
    mpirunCmd \o " " \o npParameter(attrs) \o " " \o Join(mpirunArgs) \o " " \o ncclLaunch
    \o " " \o PathJoin(ncclTests, ncclPerfTest(attrs)) \o " " \o Join(ncclTestArgs)
    \o " > " \o ncclOutputFile(fname)

mscclCommandLine(attrs, fname, mpirunCmd, mpirunArgs, ncclLaunch, ncclTests, ncclTestArgs) ==
    mpirunCmd \o " " \o npParameter(attrs) \o " " \o Join(mpirunArgs) \o " " \o mscclXMLFile(fname)
    \o " " \o ncclLaunch \o " " \o PathJoin(ncclTests, ncclPerfTest(attrs)) \o " " \o Join(ncclTestArgs)
    \o " > " \o mscclOutputFile(fname)

\* `marker in contents.upper()`: upper() maps character by character and the
\* markers hold no line break, so the search is made window by window, line by line
InUpper(lines, marker) ==
    \E k \in 1..Len(lines) :
        \E i \in 1..(Len(lines[k]) - Len(marker) + 1) :
            /\ UpperChar(Char(lines[k], i)) = Char(marker, 1)
            /\ Upper(SubSeq(lines[k], i, i + Len(marker) - 1)) = marker

\* `marker in contents`
InContents(lines, marker) == \E k \in 1..Len(lines) : Contains(lines[k], marker)

\* a warning/error test on the text as printed
HasWarnOrError_AsPrinted(lines) == InContents(lines, "NCCL WARN") \/ InContents(lines, "NCCL ERROR")

\* run_benchmark(): the warning/error test on one output file
HasWarnOrError(lines) == InUpper(lines, "NCCL WARN") \/ InUpper(lines, "NCCL ERROR")

\* run_benchmark(): the confirmation test, made on the MSCCL output file only
MissingParsed(resultFile, fname, lines) ==
    resultFile = mscclOutputFile(fname) /\ ~InContents(lines, "Parsed MSCCL")

\* run_benchmark(): whether the classification loop appends resultFile
RunSucceeded(resultFile, fname, lines) ==
    IF HasWarnOrError(lines) THEN FALSE
    ELSE ~MissingParsed(resultFile, fname, lines)

\* a pattern that every line matches
PatternMatches_Any(line) == TRUE

\* parse_test_log(): pattern.match(line) for
\* (\[1,0\]<stdout>:)?\s*(\d+)\s+(\d+)\s+
PatternMatches(line) ==
    LET p0 == IF StartsWith(line, "[1,0]<stdout>:") THEN Len("[1,0]<stdout>:") + 1 ELSE 1
        p1 == SkipSpaces(line, p0)
        p2 == SkipDigits(line, p1)
        p3 == SkipSpaces(line, p2)
        p4 == SkipDigits(line, p3)
        p5 == SkipSpaces(line, p4)
    IN  p2 > p1 /\ p3 > p2 /\ p4 > p3 /\ p5 > p4

RECURSIVE ParseFrom(_, _)
ParseFrom(lines, k) ==
    IF k > Len(lines) THEN [ok |-> TRUE, output |-> <<>>]
    ELSE IF ~PatternMatches(lines[k]) THEN ParseFrom(lines, k + 1)
    ELSE LET lineArray == Split(lines[k])
             rest == ParseFrom(lines, k + 1)
         IN  IF Len(lineArray) < 11 THEN [ok |-> FALSE, output |-> <<>>]
             ELSE [ok |-> rest.ok,
                   output |-> <<  <<lineArray[2], lineArray[7], lineArray[11]>>  >> \o rest.output]

\* parse_test_log(path) on the lines of the file; ok = FALSE stands for the
\* IndexError of lineArray[6] or lineArray[10]
parse_test_log(lines) ==
    LET r == ParseFrom(lines, 1) IN IF r.ok THEN r ELSE [ok |-> FALSE, output |-> <<>>]

\* main(): line.split("NCCL version ")[1].strip(); ok = FALSE is the IndexError
VersionOfLine(line) ==
    LET sep == "NCCL version "
        p == FindFrom(line, sep, 1)
        b == p + Len(sep)
        q == FindFrom(line, sep, b)
    IN  IF p = 0 THEN [ok |-> FALSE, version |-> None]
        ELSE [ok |-> TRUE,
              version |-> Some(Strip(SubSeq(line, b, IF q = 0 THEN Len(line) ELSE q - 1)))]

\* main(): the version loop over one output file; previous is nccl_version
\* before the loop (None while the local is unbound)
ExtractVersion(lines, previous) ==
    LET hits == {k \in 1..Len(lines) : Contains(lines[k], "NCCL version")}
    IN  IF hits = {} THEN [ok |-> TRUE, version |-> previous]
        ELSE VersionOfLine(lines[CHOOSE k \in hits : \A j \in hits : k <= j])

\* main(): library of an output file
LibraryOf(output_file_name) ==
    IF Contains(output_file_name, "msccl_result") THEN "MSCCL" ELSE "NCCL"

\* main(): the condition of the `continue` in the loop over place; python binds
\* `and` tighter than `or`
SkipPlace(library, place, in_place) ==
    (library = "MSCCL" /\ (place = 0 /\ in_place = 1)) \/ (place = 1 /\ in_place = 0)

\* main(): the line written by resultsF.write
ResultRow(attrs, library, version, place, line, fname) ==
    attrs.coll \o separator \o filter \o separator \o time_of_test \o separator \o attrs.ngpus
    \o separator \o attrs.proto \o separator \o library \o separator \o version
    \o separator \o (IF place = 1 THEN "1" ELSE "0") \o separator \o line[1]
    \o separator \o (IF place = 1 THEN line[3] ELSE line[2])
    \o separator \o attrs.name \o separator \o fname \o "\n"

\* main(): the rows written for one parsed line, place 0 before place 1
RowsOfLine(attrs, library, version, in_place, line, fname) ==
    (IF SkipPlace(library, 0, in_place) THEN <<>>
     ELSE <<ResultRow(attrs, library, version, 0, line, fname)>>)
    \o (IF SkipPlace(library, 1, in_place) THEN <<>>
        ELSE <<ResultRow(attrs, library, version, 1, line, fname)>>)

RECURSIVE RowsFrom(_, _, _, _, _, _, _)
RowsFrom(attrs, library, version, in_place, lines, k, fname) ==
    IF k > Len(lines) THEN <<>>
    ELSE RowsOfLine(attrs, library, version, in_place, lines[k], fname)
         \o RowsFrom(attrs, library, version, in_place, lines, k + 1, fname)

\* main(): everything one output file adds to the results file
RowsOfFile(attrs, output_file_name, version, lines, fname) ==
    RowsFrom(attrs, LibraryOf(output_file_name), version, IntOf(attrs.inplace).val, lines, 1, fname)

(***************************************************************************)
(* State.                                                                  *)
(***************************************************************************)
VARIABLES
    \* inputs of one invocation
    argv_rest,            \* sys.argv after the script's own options
    mode,                 \* --runMode
    env,                  \* what the launcher and directory probes answer in run mode
    listing,              \* os.listdir(directory): name, parsed xml, and the text each
                          \* of the two commands prints for that file in run mode
    results_before,       \* the results file as the invocation found it
    invocation,           \* how many times main() has been started on this output directory
    \* locals of main()
    remainder_args, mpirun, mpirun_args, np_value, nccl_launch, nccl_tests, nccl_tests_args,
    idx,                  \* position of the loop over the listing
    prossessed_files, algorithm_attributes, output_file_list, nccl_version,
    log_lines,            \* main()'s local `lines`: what parse_test_log returned last
    \* file system
    dir_exists,           \* outputDirectory exists
    result_exists,        \* outputDirectory/results.txt exists
    results,              \* its lines
    out_files,            \* the benchmark output files: path -> lines
    \* what the run showed
    commands,             \* the command lines run_benchmark built, in order
    stdout, stderr,
    pc, outcome,
    \* generate_graphs.py
    data,                 \* (configuration, collective, name) -> sizes and times of the log
    pair_idx,             \* position of the loop over configs x collectives
    speedups,             \* (configuration, collective) -> sizes and speedup
    graph_stdout,         \* what the script printed
    graph_pc, graph_outcome

inputs == <<argv_rest, mode, env, listing, results_before, invocation>>
seg_locals == <<remainder_args, mpirun, mpirun_args, np_value, nccl_launch, nccl_tests, nccl_tests_args>>
loop_locals == <<idx, prossessed_files, algorithm_attributes, output_file_list, nccl_version, log_lines>>
files == <<dir_exists, result_exists, results, out_files>>
streams == <<stdout, stderr>>
graphs == <<data, pair_idx, speedups, graph_stdout, graph_pc, graph_outcome>>
vars == <<inputs, seg_locals, loop_locals, files, commands, streams, pc, outcome, graphs>>

\* the file the loop is at
filename == listing[idx].name

resultFile == PathJoin(outputDirectory, result_file_name)

\* a print of an error followed by return or sys.exit
Fails(kind, message) ==
    /\ pc' = "done"
    /\ outcome' = kind
    /\ stdout' = Append(stdout, message)
    /\ UNCHANGED stderr

\* an exception nobody catches: the interpreter prints the traceback on stderr
Raises(exception) ==
    /\ pc' = "done"
    /\ outcome' = exception
    /\ stderr' = Append(stderr, "Traceback (most recent call last): " \o exception)
    /\ UNCHANGED stdout

(***************************************************************************)
(* main(), lines 57-125: find the launcher, parse the script's options.    *)
(***************************************************************************)
ParseArguments ==
    /\ pc = "start"
    /\ LET i == mpirun_index(argv_rest)
           unrecognized == IF i = 0 THEN argv_rest ELSE SubSeq(argv_rest, 1, i - 1)
       IN  IF unrecognized # <<>>
           THEN \* parser.parse_args: error() prints the usage on stderr, exits 2
                /\ pc' = "done"
                /\ outcome' = "argparse_error"
                /\ stderr' = Append(stderr, UsageText \o "\nbench.py: error: unrecognized arguments: "
                                            \o Join(unrecognized))
                /\ UNCHANGED <<stdout, remainder_args>>
           ELSE IF i = 0
           THEN /\ Fails("mpirun_not_found", "Error: mpirun command not found in arguments.")
                /\ UNCHANGED remainder_args
           ELSE /\ remainder_args' = SubSeq(argv_rest, i, Len(argv_rest))
                /\ pc' = "check_mpirun"
                /\ UNCHANGED <<outcome, streams>>
    /\ UNCHANGED <<graphs, inputs, mpirun, mpirun_args, np_value, nccl_launch, nccl_tests, nccl_tests_args,
                   loop_locals, files, commands>>

(***************************************************************************)
(* main(), lines 127-142: pop the launcher and check it.                   *)
(***************************************************************************)
CheckMpirun ==
    /\ pc = "check_mpirun"
    /\ mpirun' = Head(remainder_args)
    /\ remainder_args' = Tail(remainder_args)
    /\ IF MpirunRejected(mode, Head(remainder_args), env)
       THEN Fails("mpirun_invalid",
                  IF mode = "run"
                  THEN "Error: " \o Head(remainder_args) \o " must be a valid executable for the mpirun command"
                  ELSE "Error: " \o Head(remainder_args) \o " must be the mpirun command")
       ELSE /\ pc' = "segment"
            /\ UNCHANGED <<outcome, streams>>
    /\ UNCHANGED <<graphs, inputs, mpirun_args, np_value, nccl_launch, nccl_tests, nccl_tests_args,
                   loop_locals, files, commands>>

(***************************************************************************)
(* main(), lines 149-162: one turn of the loop that fills mpirun_args.     *)
(***************************************************************************)
SegmentStep ==
    /\ pc = "segment"
    /\ ScanContinues(remainder_args)
    /\ IF remainder_args[1] = "-np"
       THEN IF Len(remainder_args) < 2
            THEN \* remainder_args.pop(0) on the empty list
                 /\ Raises("IndexError")
                 /\ remainder_args' = Tail(remainder_args)
                 /\ UNCHANGED <<np_value, mpirun_args>>
            ELSE /\ np_value' = Some(remainder_args[2])
                 /\ remainder_args' = Tail(Tail(remainder_args))
                 /\ UNCHANGED <<mpirun_args, pc, outcome, streams>>
       ELSE IF remainder_args[1] = "-x" /\ Len(remainder_args) < 2
            THEN \* remainder_args[1] on a list of one
                 /\ Raises("IndexError")
                 /\ UNCHANGED <<remainder_args, np_value, mpirun_args>>
       ELSE IF IsReservedPair(remainder_args)
            THEN /\ Fails("reserved_variable", ReservedMessage)
                 /\ UNCHANGED <<remainder_args, np_value, mpirun_args>>
       ELSE /\ mpirun_args' = Append(mpirun_args, Head(remainder_args))
            /\ remainder_args' = Tail(remainder_args)
            /\ UNCHANGED <<np_value, pc, outcome, streams>>
    /\ UNCHANGED <<graphs, inputs, mpirun, nccl_launch, nccl_tests, nccl_tests_args, loop_locals, files, commands>>

(***************************************************************************)
(* main(), lines 164-167: the optional launcher.sh.                        *)
(***************************************************************************)
TakeLauncher ==
    /\ pc = "segment"
    /\ ~ScanContinues(remainder_args)
    /\ IF Len(remainder_args) > 0 /\ EndsWith(remainder_args[1], NCCL_LAUNCH_SUFFIX)
       THEN /\ nccl_launch' = Head(remainder_args)
            /\ remainder_args' = Tail(remainder_args)
       ELSE UNCHANGED <<nccl_launch, remainder_args>>
    /\ pc' = "nccl_tests"
    /\ UNCHANGED <<graphs, inputs, mpirun, mpirun_args, np_value, nccl_tests, nccl_tests_args,
                   loop_locals, files, commands, streams, outcome>>

(***************************************************************************)
(* main(), lines 169-184: the nccl-tests/build directory and what follows. *)
(***************************************************************************)
TakeNcclTests ==
    /\ pc = "nccl_tests"
    /\ IF Len(remainder_args) > 0 /\ EndsWith(remainder_args[1], NCCL_TESTS_SUFFIX)
       THEN /\ nccl_tests' = Head(remainder_args)
            /\ remainder_args' = Tail(remainder_args)
            /\ IF mode = "run" /\ ~env.isdir
               THEN /\ Fails("nccl_tests_invalid", "Error: nccl-tests/build must be a valid directory")
                    /\ UNCHANGED nccl_tests_args
               ELSE /\ nccl_tests_args' = Tail(remainder_args)
                    /\ pc' = "prepare"
                    /\ UNCHANGED <<outcome, streams>>
       ELSE /\ Fails("nccl_tests_not_found", TestsNotFoundMessage)
            /\ UNCHANGED <<nccl_tests, remainder_args, nccl_tests_args>>
    /\ UNCHANGED <<graphs, inputs, mpirun, mpirun_args, np_value, nccl_launch, loop_locals, files, commands>>

(***************************************************************************)
(* main(), lines 186-213: output directory, results file, header.          *)
(***************************************************************************)
\* a creation that writes the header row again after what is there
WithHeader_Repeating(exists, lines) == lines \o <<format_header_row(separator)>>

\* a creation that does not look whether the file is there
WithHeader_Overwriting(exists, lines) == <<format_header_row(separator)>>

\* lines 201-205: the file is created with the header row only when it is missing
WithHeader(exists, lines) == IF exists THEN lines ELSE <<format_header_row(separator)>>

PrepareResults ==
    /\ pc = "prepare"
    /\ dir_exists' = TRUE
    /\ result_exists' = TRUE
    /\ results' = WithHeader(result_exists, results)
    /\ pc' = "loop"
    /\ UNCHANGED <<graphs, inputs, seg_locals, loop_locals, out_files, commands, streams, outcome>>

(***************************************************************************)
(* main(), lines 216-234: the next directory entry, its descriptor and     *)
(* the -np check.                                                          *)
(***************************************************************************)
\* parse_msccl_xml of what main() hands it for the entry
DescriptorOf(entry) == IF mode = "test" THEN exampleMCCLInput ELSE entry.xml

\* a check that compares the two texts
NpMismatch_AsText(np, attrs) == np # None /\ np[1] # attrs.ngpus

\* main(), line 232: np_value != None and int(np_value) != int(ngpus)
NpMismatch(np, attrs) == np # None /\ IntOf(np[1]).val # IntOf(attrs.ngpus).val

\* main(), line 232: whether one of the two int() calls raises ValueError
NpNotInteger(np, attrs) == np # None /\ (~IntOf(np[1]).ok \/ ~IntOf(attrs.ngpus).ok)

NextFile ==
    /\ pc = "loop"
    /\ idx <= Len(listing)
    /\ IF ~fnmatch(filename, filter)
       THEN /\ idx' = idx + 1
            /\ UNCHANGED <<prossessed_files, algorithm_attributes, pc, outcome, streams>>
       ELSE /\ prossessed_files' = Append(prossessed_files, filename)
            /\ idx' = idx
            /\ LET xml == DescriptorOf(listing[idx])
               IN  IF xml.tag # "algo"
                   THEN Raises("AssertionError") /\ UNCHANGED algorithm_attributes
                   ELSE /\ algorithm_attributes' = xml.attrs
                        /\ IF NpNotInteger(np_value, xml.attrs)
                           THEN Raises("ValueError")
                           ELSE IF NpMismatch(np_value, xml.attrs)
                           THEN Fails("np_mismatch",
                                      "Error: -np value " \o np_value[1] \o " does not match ngpus value "
                                      \o xml.attrs.ngpus \o " in XML file " \o filename)
                           ELSE /\ pc' = "run_benchmark"
                                /\ UNCHANGED <<outcome, streams>>
    /\ UNCHANGED <<graphs, inputs, seg_locals, output_file_list, nccl_version, log_lines, files, commands>>

(***************************************************************************)
(* run_benchmark(), lines 311-343: the nccl test of the collective.        *)
(***************************************************************************)
SelectPerfTest ==
    /\ pc = "run_benchmark"
    /\ IF ncclAlgorithm(algorithm_attributes.coll) = ""
       THEN \* the raise statement names mscclAlgorithmNamePrefix, which is not
            \* defined anywhere: evaluating its argument raises NameError
            Raises("NameError")
       ELSE /\ pc' = "run_nccl"
            /\ UNCHANGED <<outcome, streams>>
    /\ UNCHANGED <<graphs, inputs, seg_locals, loop_locals, files, commands>>

\* os.remove(path) if it exists, then the file as the command (or the test
\* mode's write) leaves it
Rewritten(fs, path, lines) == [p \in DOMAIN fs \cup {path} |-> IF p = path THEN lines ELSE fs[p]]

(***************************************************************************)
(* run_benchmark(), lines 345-363: the NCCL-only command.                  *)
(***************************************************************************)
\* a launch that does not wait for the command: the output file is not there yet
RunNccl_NotAwaited ==
    /\ pc = "run_nccl"
    /\ commands' = Append(commands,
            [kind |-> "nccl", file |-> filename,
             line |-> ncclCommandLine(algorithm_attributes, filename, mpirun, mpirun_args,
                                      nccl_launch, nccl_tests, nccl_tests_args)])
    /\ pc' = "run_msccl"
    /\ UNCHANGED <<graphs, inputs, seg_locals, loop_locals, files, streams, outcome>>

RunNccl ==
    /\ pc = "run_nccl"
    /\ commands' = Append(commands,
            [kind |-> "nccl", file |-> filename,
             line |-> ncclCommandLine(algorithm_attributes, filename, mpirun, mpirun_args,
                                      nccl_launch, nccl_tests, nccl_tests_args)])
    /\ out_files' = Rewritten(out_files, ncclOutputFile(filename),
                              IF mode = "test" THEN exampleOutput ELSE listing[idx].nccl_out)
    /\ pc' = "run_msccl"
    /\ UNCHANGED <<graphs, inputs, seg_locals, loop_locals, dir_exists, result_exists, results, streams, outcome>>

(***************************************************************************)
(* run_benchmark(), lines 365-381: the MSCCL command.                      *)
(***************************************************************************)
RunMsccl ==
    /\ pc = "run_msccl"
    /\ commands' = Append(commands,
            [kind |-> "msccl", file |-> filename,
             line |-> mscclCommandLine(algorithm_attributes, filename, mpirun, mpirun_args,
                                       nccl_launch, nccl_tests, nccl_tests_args)])
    /\ out_files' = Rewritten(out_files, mscclOutputFile(filename),
                              IF mode = "test"
                              THEN <<TestModeParsedLine(filename) \o exampleOutput[1]>> \o Tail(exampleOutput)
                              ELSE listing[idx].msccl_out)
    /\ pc' = "classify"
    /\ UNCHANGED <<graphs, inputs, seg_locals, loop_locals, dir_exists, result_exists, results, streams, outcome>>

(***************************************************************************)
(* run_benchmark(), lines 383-402: classify the two output files.          *)
(***************************************************************************)
\* the files the loop over [ncclOutputFile, mscclOutputFile] appends
Classified(fs, fname) ==
    (IF RunSucceeded(ncclOutputFile(fname), fname, fs[ncclOutputFile(fname)])
     THEN <<ncclOutputFile(fname)>> ELSE <<>>)
    \o (IF RunSucceeded(mscclOutputFile(fname), fname, fs[mscclOutputFile(fname)])
        THEN <<mscclOutputFile(fname)>> ELSE <<>>)

\* the message the loop prints for one file
ClassifyMessage(fs, fname, path) ==
    IF HasWarnOrError(fs[path])
    THEN "The benchmark failed. The output file " \o path \o " contains WARN or ERROR."
    ELSE IF MissingParsed(path, fname, fs[path])
    THEN "The benchmark failed for " \o fname \o " because \"Parsed MSCCL\" not found in output."
    ELSE "Successful benchmark run for " \o fname \o " and output file is " \o path

ClassifyOutputs ==
    /\ pc = "classify"
    /\ output_file_list' = Classified(out_files, filename)
    /\ stdout' = stdout \o <<ClassifyMessage(out_files, filename, ncclOutputFile(filename)),
                             ClassifyMessage(out_files, filename, mscclOutputFile(filename))>>
    /\ pc' = "outputs"
    /\ UNCHANGED <<graphs, inputs, seg_locals, idx, prossessed_files, algorithm_attributes, nccl_version, log_lines,
                   files, commands, stderr, outcome>>

(***************************************************************************)
(* main(), lines 241-277: version, parse and rows of the next output file; *)
(* after the last one the loop over the listing goes on.                   *)
(***************************************************************************)
ProcessOutputFile ==
    /\ pc = "outputs"
    /\ IF output_file_list = <<>>
       THEN /\ idx' = idx + 1
            /\ pc' = "loop"
            /\ UNCHANGED <<output_file_list, nccl_version, log_lines, results, outcome, streams>>
       ELSE LET output_file_name == Head(output_file_list)
                text == out_files[output_file_name]
                v == ExtractVersion(text, nccl_version)
                lines == parse_test_log(text)
            IN  /\ output_file_list' = Tail(output_file_list)
                /\ idx' = idx
                /\ IF ~v.ok
                   THEN \* line.split("NCCL version ")[1] on a list of one
                        Raises("IndexError") /\ UNCHANGED <<nccl_version, log_lines, results>>
                   ELSE /\ nccl_version' = v.version
                        /\ IF ~lines.ok
                           THEN Raises("IndexError") /\ UNCHANGED <<log_lines, results>>
                           ELSE /\ log_lines' = lines.output
                                /\ IF lines.output = <<>>
                                   THEN UNCHANGED <<results, pc, outcome, streams>>
                                   ELSE IF ~IntOf(algorithm_attributes.inplace).ok
                                   THEN Raises("ValueError") /\ UNCHANGED results
                                   ELSE IF v.version = None
                                   THEN \* nccl_version read before any assignment
                                        Raises("UnboundLocalError") /\ UNCHANGED results
                                   ELSE /\ results' = results \o RowsOfFile(algorithm_attributes, output_file_name,
                                                                            v.version[1], lines.output, filename)
                                        /\ UNCHANGED <<pc, outcome, streams>>
    /\ UNCHANGED <<graphs, inputs, seg_locals, prossessed_files, algorithm_attributes,
                   dir_exists, result_exists, out_files, commands>>

(***************************************************************************)
(* main(), lines 279-285: close the results file and report.               *)
(***************************************************************************)
Finish ==
    /\ pc = "loop"
    /\ idx > Len(listing)
    /\ pc' = "done"
    /\ outcome' = "finished"
    /\ stdout' = Append(stdout,
                        IF Len(prossessed_files) = 0
                        THEN "No files were processed. Consider changing the filter or nGPU command line arguments."
                        ELSE "Processed Files = " \o ListRepr(prossessed_files))
    /\ UNCHANGED <<graphs, inputs, seg_locals, loop_locals, files, commands, stderr>>

Next ==
    \/ ParseArguments
    \/ CheckMpirun
    \/ SegmentStep
    \/ TakeLauncher
    \/ TakeNcclTests
    \/ PrepareResults
    \/ NextFile
    \/ SelectPerfTest
    \/ RunNccl
    \/ RunMsccl
    \/ ClassifyOutputs
    \/ ProcessOutputFile
    \/ Finish

(***************************************************************************)
(* Input universes.                                                        *)
(***************************************************************************)
SeqsUpTo(S, n) == UNION {[1..k -> S] : k \in 0..n}

\* tokens that may follow the launcher in the segmentation universe
SegTokens ==
    {"-np", "16", "-x", "MSCCL_XML_FILES=foo", "--tag-output",
     "msccl_ndv2_launcher.sh", "/opt/nccl-tests/build"}

\* lines of benchmark output
VersionLine == "[1,0]<stdout>:NCCL version 2.12.12.MSCCL.0.7.3+cuda11.6\n"
HeaderLine == "[1,0]<stdout>:#   size   count   type   redop   root   time   algbw   busbw #wrong   time   algbw   busbw #wrong\n"
DataLine1 == "[1,0]<stdout>:    1024     256   float   sum   -1   75.18   0.01   0.03   0   78.30   0.01   0.02   0\n"
DataLine2 == "[1,0]<stdout>:    2048     512   float   sum   -1   79.54   0.03   0.05   0   82.56   0.02   0.05   0\n"
ParsedLine == "[1,0]<stdout>:host:18075:18075 [0] NCCL INFO Parsed MSCCL Algorithm in/a.xml successfully.\n"
WarnLine == "[1,3]<stdout>:host:18075:18075 [3] NCCL WARN Cuda failure 'out of memory'\n"
LowerWarnLine == "host: nccl warn: call to connect returned Connection refused\n"
ErrorLine == "[1,0]<stdout>:host:18075 [0] misc/socket.cc:456 Nccl Error 6\n"
ShortLine == "[1,0]<stdout>:    4096    1024   float\n"

OutOk == <<VersionLine, HeaderLine, DataLine1, DataLine2>>
OutOkParsed == <<ParsedLine, VersionLine, HeaderLine, DataLine1, DataLine2>>
OutWarn == <<VersionLine, WarnLine, DataLine1>>
OutLowerWarn == <<VersionLine, LowerWarnLine, DataLine1>>
OutErrorParsed == <<ParsedLine, VersionLine, DataLine1, ErrorLine>>
OutNoVersion == <<HeaderLine, DataLine1>>
OutNoVersionParsed == <<ParsedLine, HeaderLine, DataLine2>>
OutShort == <<VersionLine, DataLine1, ShortLine>>

Descriptor(coll, ngpus, inplace) ==
    [tag |-> "algo",
     attrs |-> [name |-> coll \o "-n" \o ngpus, proto |-> "LL", ngpus |-> ngpus,
                coll |-> coll, inplace |-> inplace]]

Sample(ext, xml, nccl_out, msccl_out) ==
    [ext |-> ext, xml |-> xml, nccl_out |-> nccl_out, msccl_out |-> msccl_out]

\* directory entries of the run universe: descriptor and what the two commands print
SampleEntries ==
    { Sample(".xml", Descriptor("allgather", "16", "1"), OutOk, OutOkParsed),
      Sample(".xml", Descriptor("allreduce", "16", "0"), OutOk, OutOkParsed),
      Sample(".xml", Descriptor("AllToAll", "8", "1"), OutOk, OutOkParsed),
      Sample(".xml", Descriptor("allgather", "16", "0"), OutLowerWarn, OutOkParsed),
      Sample(".xml", Descriptor("allreduce", "16", "1"), OutOk, OutOk),
      Sample(".xml", Descriptor("alltoall", "16", "1"), OutWarn, OutErrorParsed),
      Sample(".xml", Descriptor("reduce_scatter", "16", "1"), OutOk, OutOkParsed),
      Sample(".xml", Descriptor("allgather", "16", "1"), OutNoVersion, OutOk),
      Sample(".xml", Descriptor("allreduce", "16", "0"), OutOk, OutNoVersionParsed),
      Sample(".xml", Descriptor("allgather", "16", "1"), OutShort, OutOkParsed),
      Sample(".txt", Descriptor("allgather", "16", "1"), OutOk, OutOkParsed),
      Sample(".xml", [Descriptor("allgather", "16", "1") EXCEPT !.tag = "algorithm"], OutOk, OutOkParsed) }

\* entries whose content test mode never reads
TestModeEntries == {e \in SampleEntries : e.xml = Descriptor("allgather", "16", "1") /\ e.nccl_out = OutOk /\ e.msccl_out = OutOkParsed}

\* the listing made of the samples s, named a, b, c ... in directory order
ListingOf(s) ==
    [i \in 1..Len(s) |->
        [name |-> Char("abcdefgh", i) \o s[i].ext, xml |-> s[i].xml,
         nccl_out |-> s[i].nccl_out, msccl_out |-> s[i].msccl_out]]

GoodEnv == [which |-> TRUE, exists |-> TRUE, xok |-> TRUE, isdir |-> TRUE]

\* the launcher and directory probes of run mode
EnvSamples ==
    { GoodEnv,
      [GoodEnv EXCEPT !.which = FALSE],
      [GoodEnv EXCEPT !.isdir = FALSE] }

\* the probes for a launcher given with a path: no such file, a file that is
\* not executable, an executable file
PathEnvSamples ==
    { [which |-> FALSE, exists |-> FALSE, xok |-> FALSE, isdir |-> TRUE],
      [which |-> FALSE, exists |-> TRUE, xok |-> FALSE, isdir |-> TRUE],
      GoodEnv }

OldRow == "allgather\t*.xml\t2023-05-01 08:00:00\t16\tLL\tNCCL\t2.12.12\t0\t1024\t75.18\told-n16\told.xml\n"
StaleText == <<"stale output of an earlier invocation\n">>

\* the output directory as an invocation may find it
FreshDisk == [dir |-> FALSE, result |-> FALSE, lines |-> <<>>, stale |-> FALSE]
\* the benchmark output files an earlier invocation left for the listing l
StaleFiles(l) ==
    LET paths == {ncclOutputFile(l[i].name) : i \in 1..Len(l)} \cup {mscclOutputFile(l[i].name) : i \in 1..Len(l)}
    IN  [p \in paths |-> StaleText]

\* the state main() starts in, for given inputs
Start(argv, m, e, l, disk) ==
    /\ argv_rest = argv
    /\ mode = m
    /\ env = e
    /\ listing = l
    /\ results_before = [exists |-> disk.result, lines |-> disk.lines]
    /\ invocation = 1
    /\ remainder_args = <<>>
    /\ mpirun = ""
    /\ mpirun_args = <<>>
    /\ np_value = None
    /\ nccl_launch = ""
    /\ nccl_tests = ""
    /\ nccl_tests_args = <<>>
    /\ idx = 1
    /\ prossessed_files = <<>>
    /\ algorithm_attributes = exampleMCCLInput.attrs
    /\ output_file_list = <<>>
    /\ nccl_version = None
    /\ log_lines = <<>>
    /\ dir_exists = disk.dir
    /\ result_exists = disk.result
    /\ results = disk.lines
    /\ out_files = IF disk.stale THEN StaleFiles(l) ELSE <<>>
    /\ commands = <<>>
    /\ stdout = <<>>
    /\ stderr = <<>>
    /\ pc = "start"
    /\ outcome = ""
    /\ data = <<>>
    /\ pair_idx = 1
    /\ speedups = <<>>
    /\ graph_stdout = <<>>
    /\ graph_pc = "start"
    /\ graph_outcome = ""

\* command lines of the run universe, each with the output directory it finds
Invocation(argv, disk) == [argv |-> argv, disk |-> disk]

OldResults == [dir |-> TRUE, result |-> TRUE, lines |-> <<format_header_row(separator), OldRow>>, stale |-> FALSE]
OldOutputs == [dir |-> TRUE, result |-> FALSE, lines |-> <<>>, stale |-> TRUE]

RunInvocations ==
    { Invocation(<<"mpirun", "/opt/nccl-tests/build">>, FreshDisk),
      Invocation(<<"mpirun", "-np", "16", "--tag-output", "/opt/nccl-tests/build", "-b", "1KB">>, OldResults),
      Invocation(<<"/usr/bin/mpirun", "-np", "016", "msccl_ndv2_launcher.sh", "/opt/nccl-tests/build">>, OldOutputs),
      Invocation(<<"mpirun", "-np", "8", "/opt/nccl-tests/build">>, FreshDisk),
      Invocation(<<"mpirun", "-np", "8", "-np", "16", "/opt/nccl-tests/build">>, OldResults),
      Invocation(<<"mpirun", "-x", "-np", "16", "MSCCL_XML_FILES=foo", "/opt/nccl-tests/build">>, FreshDisk),
      Invocation(<<"mpirun", "-x", "MSCCL_XML_FILES=foo", "/opt/nccl-tests/build">>, OldResults),
      Invocation(<<"mpirun", "--tag-output">>, OldResults),
      Invocation(<<>>, OldResults),
      Invocation(<<"mpirun", "-x", "MSCCL_XML_FILES=foo", "/opt/nccl-tests/build">>, FreshDisk),
      Invocation(<<"mpirun", "--tag-output">>, FreshDisk),
      Invocation(<<>>, FreshDisk) }

TestInvocations ==
    { Invocation(<<"mpirun", "/opt/nccl-tests/build">>, FreshDisk),
      Invocation(<<"mpirun", "-np", "8", "/opt/nccl-tests/build">>, OldResults),
      Invocation(<<"mpirun", "-np", "16", "msccl_ndv2_launcher.sh", "/opt/nccl-tests/build", "-b", "1KB">>, OldOutputs) }

\* the run universe: a few command lines, every listing of up to MaxFiles entries
Init ==
    \/ \E inv \in RunInvocations, s \in SeqsUpTo(SampleEntries, MaxFiles) :
           Start(inv.argv, "run", GoodEnv, ListingOf(s), inv.disk)
    \/ \E inv \in TestInvocations, s \in SeqsUpTo(TestModeEntries, MaxFiles) :
           Start(inv.argv, "test", GoodEnv, ListingOf(s), inv.disk)

Spec == Init /\ [][Next]_vars

OneFile == ListingOf(<<Sample(".xml", Descriptor("allgather", "16", "1"), OutOk, OutOkParsed)>>)

\* the segmentation universe: every token sequence of up to MaxArgs tokens after
\* the launcher (and the sequences without a launcher), one descriptor file
InitSeg ==
    \E s \in SeqsUpTo(SegTokens, MaxArgs) :
        \/ Start(<<"mpirun">> \o s, "run", GoodEnv, OneFile, FreshDisk)
        \/ /\ Len(s) <= 2
           /\ \E e \in EnvSamples : Start(<<"mpirun">> \o s, "run", e, OneFile, FreshDisk)
        \/ Start(<<"mpirun">> \o s, "test", GoodEnv, IF Len(s) <= 2 THEN OneFile ELSE <<>>, FreshDisk)
        \/ /\ Len(s) <= 1
           /\ Start(s, "test", GoodEnv, <<>>, FreshDisk)
        \/ /\ Len(s) <= 1
           /\ \E e \in PathEnvSamples : Start(<<"/usr/bin/mpirun">> \o s, "run", e, OneFile, FreshDisk)

SpecSeg == InitSeg /\ [][Next]_vars

(***************************************************************************)
(* Descriptor file names: the directory holds files whose names are drawn  *)
(* from FileNames, each with a good descriptor and good outputs.           *)
(***************************************************************************)
FileNames == {"a.xml", "msccl_result.xml", "nccl_result.xml", "b.txt"}

NameEntries ==
    { Sample(".xml", Descriptor("allgather", "16", "1"), OutOk, OutOkParsed),
      Sample(".xml", Descriptor("allreduce", "16", "0"), OutOk, OutOkParsed),
      Sample(".xml", Descriptor("broadcast", "16", "1"), OutOk, OutOkParsed) }

\* the listing made of the samples s under the names n
NamedListing(n, s) ==
    [i \in 1..Len(n) |->
        [name |-> n[i], xml |-> s[i].xml, nccl_out |-> s[i].nccl_out, msccl_out |-> s[i].msccl_out]]

NamesArgs ==
    { <<"mpirun", "/opt/nccl-tests/build">>,
      <<"mpirun", "-np", "16", "msccl_ndv2_launcher.sh", "/opt/nccl-tests/build">>,
      <<"mpirun", "-x", "MSCCL_XML_FILES=foo", "/opt/nccl-tests/build">>,
      <<"mpirun", "--tag-output">> }

InitNames ==
    \E a \in NamesArgs, n \in SeqsUpTo(FileNames, MaxFiles) :
        /\ \A i, j \in 1..Len(n) : n[i] = n[j] => i = j
        /\ \/ \E s \in [1..Len(n) -> NameEntries] : Start(a, "run", GoodEnv, NamedListing(n, s), FreshDisk)
           \/ \E s \in [1..Len(n) -> TestModeEntries] : Start(a, "test", GoodEnv, NamedListing(n, s), FreshDisk)

SpecNames == InitNames /\ [][Next]_vars

(***************************************************************************)
(* Several invocations on one output directory: when main() has ended, the *)
(* script is started again with another command line; the directory        *)
(* listing stays, and the files are as the earlier invocation left them.   *)
(***************************************************************************)
RunsArgs ==
    { <<"mpirun", "/opt/nccl-tests/build">>,
      <<"mpirun", "-np", "8", "/opt/nccl-tests/build">>,
      <<"mpirun", "--tag-output">> }

RunsEntries ==
    { Sample(".xml", Descriptor("allgather", "16", "1"), OutOk, OutOkParsed),
      Sample(".xml", Descriptor("AllToAll", "8", "1"), OutOk, OutOkParsed),
      Sample(".xml", Descriptor("allgather", "16", "0"), OutLowerWarn, OutOkParsed),
      Sample(".xml", Descriptor("allgather", "16", "1"), OutNoVersion, OutOk) }

Reinvoke ==
    /\ pc = "done"
    /\ invocation < MaxRuns
    /\ invocation' = invocation + 1
    /\ \E argv \in RunsArgs : argv_rest' = argv
    /\ results_before' = [exists |-> result_exists, lines |-> results]
    /\ remainder_args' = <<>>
    /\ mpirun' = ""
    /\ mpirun_args' = <<>>
    /\ np_value' = None
    /\ nccl_launch' = ""
    /\ nccl_tests' = ""
    /\ nccl_tests_args' = <<>>
    /\ idx' = 1
    /\ prossessed_files' = <<>>
    /\ algorithm_attributes' = exampleMCCLInput.attrs
    /\ output_file_list' = <<>>
    /\ nccl_version' = None
    /\ log_lines' = <<>>
    /\ commands' = <<>>
    /\ stdout' = <<>>
    /\ stderr' = <<>>
    /\ pc' = "start"
    /\ outcome' = ""
    /\ UNCHANGED <<graphs, mode, env, listing, files>>

NextRuns == Next \/ Reinvoke

InitRuns ==
    \/ \E argv \in RunsArgs, s \in SeqsUpTo(RunsEntries, MaxFiles) :
           Start(argv, "run", GoodEnv, ListingOf(s), FreshDisk)
    \/ \E argv \in RunsArgs : Start(argv, "test", GoodEnv, OneFile, FreshDisk)

SpecRuns == InitRuns /\ [][NextRuns]_vars

(***************************************************************************)
(* The log universe: one descriptor whose MSCCL command prints any text of *)
(* up to MaxLines lines after its confirmation line; main() hands the file *)
(* to parse_test_log.                                                      *)
(***************************************************************************)
NoPrefixLine == "        1024           256     float     sum      -1    75.18    0.01    0.03      0    78.30    0.01    0.02      0\n"
BlankLine == "\n"
DiagnosticLine == "[1,0]<stdout>:# Out of bounds values : 0 OK\n"

LineSamples == {VersionLine, HeaderLine, BlankLine, DiagnosticLine, DataLine1, DataLine2, NoPrefixLine, ShortLine}

InitParse ==
    \E t \in SeqsUpTo(LineSamples, MaxLines) :
        Start(<<"mpirun", "--tag-output", "/opt/nccl-tests/build">>, "run", GoodEnv,
              ListingOf(<<Sample(".xml", Descriptor("allgather", "16", "1"), OutOk, <<ParsedLine>> \o t)>>),
              FreshDisk)

SpecParse == InitParse /\ [][Next]_vars

(***************************************************************************)
(* generate_graphs.py, lines 18-19 and 101-131: the loaded logs and the     *)
(* speedup of the main results over the baseline results.                  *)
(***************************************************************************)
main_name == "msccl"
baseline_name == "nccl"

bench_state == <<inputs, seg_locals, loop_locals, files, commands, streams, pc, outcome>>

\* str(n) of a natural number
RECURSIVE DecimalOf(_)
DecimalOf(n) == IF n < 10 THEN Char("0123456789", n + 1) ELSE DecimalOf(n \div 10) \o Char("0123456789", (n % 10) + 1)

\* the configurations and collectives of the universe, in sorted() order
ConfigOrder == <<"ndv2", "ndv4">>
CollectiveOrder == <<"allgather-outofplace", "allreduce-inplace">>

\* the size columns a log may hold
SizeSeqs == SeqsUpTo({1024, 2048}, MaxSizes)

\* the time column of a log with n data lines, in hundredths of a microsecond
TimesOf(name, n) == [i \in 1..n |-> IF name = baseline_name THEN 7518 + 100 * i ELSE 3100 + 50 * i]

\* parse_nccl_tests_log(): the two arrays of a log
LogOf(name, sizes) == [sizes |-> sizes, times |-> TimesOf(name, Len(sizes))]

\* the logs whose presence and size column vary, and the pair of logs that is
\* always there
VaryingKeys ==
    { <<"ndv2", "allreduce-inplace", main_name>>, <<"ndv2", "allreduce-inplace", baseline_name>>,
      <<"ndv4", "allreduce-inplace", main_name>>, <<"ndv4", "allreduce-inplace", baseline_name>> }
FixedKeys ==
    { <<"ndv2", "allgather-outofplace", main_name>>, <<"ndv2", "allgather-outofplace", baseline_name>> }

\* load_data(find_data_logs()) for a choice f of what is under data/
DataOf(f) ==
    [k \in {v \in VaryingKeys : f[v] # None} \cup FixedKeys |->
        IF k \in FixedKeys THEN LogOf(k[3], <<1024, 2048>>) ELSE LogOf(k[3], f[k][1])]

\* sorted(set(key[0] for key in data)), sorted(set(key[1] for key in data))
configs == SelectSeq(ConfigOrder, LAMBDA c : \E k \in DOMAIN data : k[1] = c)
collectives == SelectSeq(CollectiveOrder, LAMBDA c : \E k \in DOMAIN data : k[2] = c)

\* the pairs the two nested loops visit, in order
pairs ==
    [n \in 1..(Len(configs) * Len(collectives)) |->
        <<configs[((n - 1) \div Len(collectives)) + 1], collectives[((n - 1) % Len(collectives)) + 1]>>]

\* numpy broadcasting of two one-dimensional arrays: equal lengths, or one of
\* them of length 1
Broadcastable(a, b) == Len(a) = Len(b) \/ Len(a) = 1 \/ Len(b) = 1
BroadcastLen(a, b) == IF Len(a) = 1 THEN Len(b) ELSE Len(a)
ElementAt(a, i) == IF Len(a) = 1 THEN a[1] ELSE a[i]

\* any(main_sizes != baseline_sizes) for broadcastable arrays
SizesDiffer(a, b) == \E i \in 1..BroadcastLen(a, b) : ElementAt(a, i) # ElementAt(b, i)

\* the while loop: the index of the first mismatch
FirstMismatch(a, b) ==
    CHOOSE i \in 0..Len(a) :
        /\ \A j \in 1..i : j <= Len(b) /\ a[j] = b[j]
        /\ ~(i < Len(a) /\ i < Len(b) /\ a[i + 1] = b[i + 1])

WarningOf(config, collective, i) ==
    "WARNING: " \o baseline_name \o " and " \o main_name \o " results for"
    \o config \o "/" \o collective \o " have different sizes at index " \o DecimalOf(i)

\* baseline_times / main_times, element by element, in thousandths
Quotient(baseline_times, main_times) ==
    [i \in 1..BroadcastLen(baseline_times, main_times) |->
        (ElementAt(baseline_times, i) * 1000) \div ElementAt(main_times, i)]

\* line 101: the logs under data/ are loaded
LoadData ==
    /\ graph_pc = "start"
    /\ \E f \in [VaryingKeys -> {None} \cup {Some(q) : q \in SizeSeqs}] : data' = DataOf(f)
    /\ graph_pc' = "speedups"
    /\ UNCHANGED <<bench_state, pair_idx, speedups, graph_stdout, graph_outcome>>

\* lines 109-131: one pass of the body of the two loops
SpeedupStep ==
    /\ graph_pc = "speedups"
    /\ pair_idx <= Len(pairs)
    /\ LET config == pairs[pair_idx][1]
           collective == pairs[pair_idx][2]
           m == <<config, collective, main_name>>
           b == <<config, collective, baseline_name>>
       IN  IF m \notin DOMAIN data \/ b \notin DOMAIN data
           THEN /\ pair_idx' = pair_idx + 1
                /\ UNCHANGED <<speedups, graph_stdout, graph_pc, graph_outcome>>
           ELSE IF ~Broadcastable(data[m].sizes, data[b].sizes)
           THEN \* the comparison of arrays of different shapes: numpy raises
                \* ValueError, or (older releases) gives the scalar True, on which
                \* any() raises TypeError
                /\ \E e \in {"ValueError", "TypeError"} : graph_outcome' = e
                /\ graph_pc' = "done"
                /\ UNCHANGED <<pair_idx, speedups, graph_stdout>>
           ELSE IF SizesDiffer(data[m].sizes, data[b].sizes)
           THEN /\ graph_stdout' = Append(graph_stdout,
                        WarningOf(config, collective, FirstMismatch(data[m].sizes, data[b].sizes)))
                /\ pair_idx' = pair_idx + 1
                /\ UNCHANGED <<speedups, graph_pc, graph_outcome>>
           ELSE /\ speedups' = [p \in DOMAIN speedups \cup {pairs[pair_idx]} |->
                                   IF p = pairs[pair_idx]
                                   THEN [sizes |-> data[m].sizes,
                                         speedup |-> Quotient(data[b].times, data[m].times)]
                                   ELSE speedups[p]]
                /\ pair_idx' = pair_idx + 1
                /\ UNCHANGED <<graph_stdout, graph_pc, graph_outcome>>
    /\ UNCHANGED <<bench_state, data>>

\* the loops are over: the script goes on to render
SpeedupsEnd ==
    /\ graph_pc = "speedups"
    /\ pair_idx > Len(pairs)
    /\ graph_pc' = "done"
    /\ graph_outcome' = "speedups_computed"
    /\ UNCHANGED <<bench_state, data, pair_idx, speedups, graph_stdout>>

NextGraphs ==
    \/ LoadData
    \/ SpeedupStep
    \/ SpeedupsEnd

InitGraphs == Start(<<>>, "test", GoodEnv, <<>>, FreshDisk)

SpecGraphs == InitGraphs /\ [][NextGraphs]_vars

(***************************************************************************)
(* Vocabulary of the properties.                                           *)
(***************************************************************************)
\* the tokens after the launcher, as the user typed them
TypedAfterLauncher ==
    IF mpirun_index(argv_rest) = 0 THEN <<>>
    ELSE SubSeq(argv_rest, mpirun_index(argv_rest) + 1, Len(argv_rest))

\* position of the first benchmark-directory token among them, 0 when there is none
FirstTestsToken(t) ==
    LET hits == {i \in 1..Len(t) : EndsWith(t[i], NCCL_TESTS_SUFFIX)}
    IN  IF hits = {} THEN 0 ELSE CHOOSE i \in hits : \A j \in hits : i <= j

\* the adjacent pair -x MSCCL_XML_FILES=... stands at positions i, i+1 of t
ReservedPairAt(t, i) ==
    i >= 1 /\ i + 1 <= Len(t) /\ t[i] = "-x" /\ StartsWith(t[i + 1], "MSCCL_XML_FILES=")

\* the launcher was found and passed the check of the mode
LauncherAccepted ==
    /\ mpirun_index(argv_rest) = 1
    /\ ~MpirunRejected(mode, argv_rest[1], env)

\* the launcher and, in run mode, the benchmark directory pass their probes
ProbesPass == LauncherAccepted /\ (mode = "run" => env.isdir)

\* main() ended inside lines 57-184
SegmentationFailed ==
    /\ pc = "done"
    /\ \/ outcome \in {"argparse_error", "mpirun_not_found", "mpirun_invalid", "reserved_variable",
                       "nccl_tests_not_found", "nccl_tests_invalid"}
       \/ outcome = "IndexError" /\ prossessed_files = <<>>

\* main() got past line 184
Segmented == pc \notin {"start", "check_mpirun", "segment", "nccl_tests"} /\ ~SegmentationFailed

\* the outputs of the segmentation put back together, the -np pair at position p
Reassembled(p) ==
    <<mpirun>> \o SubSeq(mpirun_args, 1, p)
    \o (IF np_value = None THEN <<>> ELSE <<"-np", np_value[1]>>)
    \o SubSeq(mpirun_args, p + 1, Len(mpirun_args))
    \o (IF nccl_launch = "" THEN <<>> ELSE <<nccl_launch>>)
    \o <<nccl_tests>> \o nccl_tests_args

Reconstructs == \E p \in 0..Len(mpirun_args) : Reassembled(p) = argv_rest

\* the tokens before the benchmark-directory token at k follow the usage line:
\* launcher.sh only directly before the directory, no reserved pair, at most one
\* -np and that one followed by its value
PlainPrefix(t, k) ==
    /\ \A i \in 1..(k - 1) : EndsWith(t[i], NCCL_LAUNCH_SUFFIX) => i = k - 1
    /\ \A i \in 1..(k - 1) : ~ReservedPairAt(t, i)
    /\ Cardinality({i \in 1..(k - 1) : t[i] = "-np"}) <= 1
    /\ k > 1 => t[k - 1] # "-np"

(***************************************************************************)
(* C1.  As claimed: every token sequence with a launcher token followed    *)
(* later by a benchmark-directory token is segmented successfully, and the *)
(* outputs in order, the extracted -np pair re-inserted, give back the     *)
(* sequence from the launcher on.  (The probes of run mode are taken to    *)
(* pass.)  The code refuses or loses some of these sequences.              *)
(***************************************************************************)
C1_EverySequenceSegments ==
    (ProbesPass /\ FirstTestsToken(TypedAfterLauncher) > 0)
        => (~SegmentationFailed /\ (Segmented => Reconstructs))

(***************************************************************************)
(* C1 as amended: when the tokens before the first benchmark-directory     *)
(* token hold no reserved pair, a launcher.sh token only directly before   *)
(* the directory, and at most one -np, which has a value before the        *)
(* directory, segmentation succeeds and its outputs, the -np pair          *)
(* re-inserted among the launcher options, give back the sequence from     *)
(* the launcher on.                                                        *)
(***************************************************************************)
C1_PlainSequenceSegments ==
    (/\ ProbesPass
     /\ FirstTestsToken(TypedAfterLauncher) > 0
     /\ PlainPrefix(TypedAfterLauncher, FirstTestsToken(TypedAfterLauncher)))
        => (~SegmentationFailed /\ (Segmented => Reconstructs))

\* a plain sequence with launcher options and a -np pair has been segmented
C1_Witness ==
    /\ pc = "prepare"
    /\ np_value # None
    /\ mpirun_args # <<>>
    /\ PlainPrefix(TypedAfterLauncher, FirstTestsToken(TypedAfterLauncher))
    /\ Reconstructs

(***************************************************************************)
(* C2.  As claimed: when no token after the launcher ends in               *)
(* nccl-tests/build, main() ends with the "nccl-tests/build not found"     *)
(* failure and nothing else, a trailing -np or -x included.  (Sequences    *)
(* holding the reserved pair, which C3 speaks of, are left aside.)         *)
(***************************************************************************)
C2_NoAnchorIsStructuralError ==
    (/\ LauncherAccepted
     /\ FirstTestsToken(TypedAfterLauncher) = 0
     /\ \A i \in 1..Len(TypedAfterLauncher) : ~ReservedPairAt(TypedAfterLauncher, i)
     /\ pc = "done")
        => (outcome = "nccl_tests_not_found" /\ stdout = <<TestsNotFoundMessage>> /\ stderr = <<>>)

(***************************************************************************)
(* C3.  As claimed: the pair -x MSCCL_XML_FILES=... anywhere between the   *)
(* launcher and the benchmark-directory token makes main() fail with the   *)
(* reserved-variable diagnostic, which names MSCCL_XML_FILES, and no       *)
(* command is built.                                                       *)
(***************************************************************************)
C3_PairAnywhereIsRejected ==
    (/\ LauncherAccepted
     /\ \E i \in 1..Len(TypedAfterLauncher) :
            /\ ReservedPairAt(TypedAfterLauncher, i)
            /\ \E k \in (i + 2)..Len(TypedAfterLauncher) : EndsWith(TypedAfterLauncher[k], NCCL_TESTS_SUFFIX)
            /\ \A k \in 1..(i + 1) : ~EndsWith(TypedAfterLauncher[k], NCCL_TESTS_SUFFIX))
        => /\ commands = <<>>
           /\ pc = "done" => (outcome = "reserved_variable" /\ stdout = <<ReservedMessage>>)

\* the pair at i is met by the scan: no token before it ends the scan, and its
\* -x is not taken as the value of a -np
PairIsScanned(t, i) ==
    /\ ReservedPairAt(t, i)
    /\ \A k \in 1..(i - 1) : ~EndsWith(t[k], NCCL_TESTS_SUFFIX) /\ ~EndsWith(t[k], NCCL_LAUNCH_SUFFIX)
    /\ i > 1 => t[i - 1] # "-np"

(***************************************************************************)
(* C3 as amended: when the pair stands after the launcher with no token    *)
(* ending in launcher.sh or nccl-tests/build before it and its -x not      *)
(* directly after a -np, main() fails with the reserved-variable           *)
(* diagnostic, which names MSCCL_XML_FILES, and no command is built.       *)
(***************************************************************************)
C3_ScannedPairIsRejected ==
    (LauncherAccepted /\ \E i \in 1..Len(TypedAfterLauncher) : PairIsScanned(TypedAfterLauncher, i))
        => /\ commands = <<>>
           /\ pc \notin {"prepare", "loop", "run_benchmark", "run_nccl", "run_msccl", "classify", "outputs"}
           /\ pc = "done" => /\ outcome = "reserved_variable"
                             /\ stdout = <<ReservedMessage>>
                             /\ Contains(stdout[1], "MSCCL_XML_FILES")

\* the diagnostic was printed for a pair that follows other launcher options
C3_Witness ==
    /\ outcome = "reserved_variable"
    /\ (mpirun_args # <<>> \/ np_value # None)
    /\ commands = <<>>
    /\ Contains(stdout[1], "MSCCL_XML_FILES")

\* position in the listing of the file named f
IndexOfFile(f) == CHOOSE j \in 1..Len(listing) : listing[j].name = f

\* the ngpus attribute of the descriptor at position j, as an integer
NgpusOf(j) == IntOf(DescriptorOf(listing[j]).attrs.ngpus).val

\* every command launched so far belongs to a descriptor before position j
CommandsOnlyBefore(j) == \A i \in 1..Len(commands) : IndexOfFile(commands[i].file) < j

(***************************************************************************)
(* C4.  When main() keeps a -np value v from the launcher options, v an    *)
(* integer literal, a descriptor is benchmarked only if int(v) equals      *)
(* int(ngpus); main() ends                                                 *)
(* with the mismatch failure only at a descriptor whose int(ngpus)         *)
(* differs from int(v), and then no command was launched for that          *)
(* descriptor or a later one.                                              *)
(***************************************************************************)
C4_NpAgainstNgpus ==
    (np_value # None /\ IntOf(np_value[1]).ok)
        => /\ \A i \in 1..Len(commands) :
                  NgpusOf(IndexOfFile(commands[i].file)) = IntOf(np_value[1]).val
           /\ pc \in {"run_benchmark", "run_nccl", "run_msccl", "classify", "outputs"}
                  => NgpusOf(idx) = IntOf(np_value[1]).val
           /\ outcome = "np_mismatch"
                  => /\ idx <= Len(listing)
                     /\ NgpusOf(idx) # IntOf(np_value[1]).val
                     /\ CommandsOnlyBefore(idx)

\* the mismatch was found at the second descriptor, after the first was benchmarked
C4_Witness ==
    /\ outcome = "np_mismatch"
    /\ idx > 1
    /\ commands # <<>>
    /\ IntOf(np_value[1]).ok

\* a descriptor whose ngpus is the same integer as -np, written differently, is benchmarked
C4_WitnessEqual ==
    /\ pc = "run_nccl"
    /\ np_value # None
    /\ np_value[1] # algorithm_attributes.ngpus
    /\ IntOf(np_value[1]).val = IntOf(algorithm_attributes.ngpus).val

\* what the results file holds once lines 198-205 have run on the file found at the start
ResultsBase ==
    IF results_before.exists THEN results_before.lines ELSE <<format_header_row(separator)>>

\* the descriptor file named in the last field of a results row
RowNamesFile(row, f) == EndsWith(row, separator \o f \o "\n")

(***************************************************************************)
(* C5.  As claimed: after each of the four structural failures (launcher   *)
(* not found, benchmark directory not found, reserved variable in the      *)
(* command line, -np mismatch) the results file is exactly as it was       *)
(* before the run.                                                         *)
(***************************************************************************)
C5_FailuresLeaveResultsAlone ==
    outcome \in {"mpirun_not_found", "nccl_tests_not_found", "reserved_variable", "np_mismatch"}
        => (result_exists = results_before.exists /\ results = results_before.lines)

(***************************************************************************)
(* C5 as amended: after the launcher-not-found, directory-not-found and    *)
(* reserved-variable failures the results file is exactly as it was        *)
(* before the run.  After the -np mismatch failure the file exists, holds  *)
(* what it held before (or the header row, if it did not exist), followed  *)
(* only by rows of descriptors that precede the mismatching one.           *)
(***************************************************************************)
C5_ResultsAfterFailure ==
    /\ outcome \in {"mpirun_not_found", "nccl_tests_not_found", "reserved_variable"}
           => (result_exists = results_before.exists /\ results = results_before.lines)
    /\ outcome = "np_mismatch"
           => /\ result_exists
              /\ Len(results) >= Len(ResultsBase)
              /\ SubSeq(results, 1, Len(ResultsBase)) = ResultsBase
              /\ \A i \in (Len(ResultsBase) + 1)..Len(results) :
                     \E j \in 1..(idx - 1) : RowNamesFile(results[i], listing[j].name)

\* the mismatch failure came after the file was created and rows of an earlier descriptor written
C5_Witness ==
    /\ outcome = "np_mismatch"
    /\ ~results_before.exists
    /\ Len(results) > 1
    /\ results[1] = format_header_row(separator)

\* a failure before line 198 left an existing results file as it was
C5_WitnessEarly ==
    /\ outcome \in {"mpirun_not_found", "nccl_tests_not_found", "reserved_variable"}
    /\ results_before.exists
    /\ results = results_before.lines

\* the fields of a results row, its line break taken off
RECURSIVE FieldsFrom(_, _, _)
FieldsFrom(row, start, seps) ==
    LET p == CHOOSE i \in seps : \A k \in seps : i <= k
    IN  IF seps = {} THEN <<SubSeq(row, start, Len(row))>>
        ELSE <<SubSeq(row, start, p - 1)>> \o FieldsFrom(row, p + 1, seps \ {p})

Fields(row) ==
    LET body == SubSeq(row, 1, Len(row) - 1)
    IN  FieldsFrom(body, 1, {i \in 1..Len(body) : SubSeq(body, i, i) = separator})

\* the rows this run appended
NewRows == {i \in (Len(ResultsBase) + 1)..Len(results) : TRUE}

\* a row appended by this run for descriptor file f with library label lib
RowOf(i, f, lib) == i \in NewRows /\ Fields(results[i])[12] = f /\ Fields(results[i])[6] = lib

MatchingAt(j) == fnmatch(listing[j].name, filter)

\* what the two commands of the descriptor at j print in run mode
BaselineText(j) == listing[j].nccl_out
VariantText(j) == listing[j].msccl_out

\* marker stands in line at position p, letter case set aside
MarkerAt(line, p, marker) ==
    /\ p + Len(marker) - 1 <= Len(line)
    /\ \A c \in 1..Len(marker) : UpperChar(Char(line, p + c - 1)) = Char(marker, c)

\* the marker tests of the classification
HasMarker(text) ==
    \E k \in 1..Len(text) : \E p \in 1..Len(text[k]) :
        MarkerAt(text[k], p, "NCCL WARN") \/ MarkerAt(text[k], p, "NCCL ERROR")

Confirmed(text) == \E k \in 1..Len(text) : Contains(text[k], "Parsed MSCCL")

BaselinePasses(text) == ~HasMarker(text)
VariantPasses(text) == ~HasMarker(text) /\ Confirmed(text)

(***************************************************************************)
(* C6.  As claimed: in a run where exactly one descriptor matches the      *)
(* filter, its inplace is "0", and both outputs are classified successful  *)
(* with L parsed data lines each, the results file is created with the     *)
(* header first, exactly 2*L rows follow, and for every parsed line the    *)
(* rows include one with in-place flag 1 and one with in-place flag 0.     *)
(***************************************************************************)
C6_RowsOfOutOfPlaceDescriptor ==
    \A j \in 1..Len(listing) :
        (/\ pc = "done" /\ outcome = "finished" /\ mode = "run"
         /\ ~results_before.exists
         /\ {k \in 1..Len(listing) : MatchingAt(k)} = {j}
         /\ listing[j].xml.attrs.inplace = "0"
         /\ BaselinePasses(BaselineText(j)) /\ VariantPasses(VariantText(j))
         /\ parse_test_log(BaselineText(j)).ok /\ parse_test_log(VariantText(j)).ok
         /\ Len(parse_test_log(BaselineText(j)).output) = Len(parse_test_log(VariantText(j)).output))
            => LET L == Len(parse_test_log(BaselineText(j)).output)
                   parsed == parse_test_log(BaselineText(j)).output \o parse_test_log(VariantText(j)).output
               IN  /\ results[1] = format_header_row(separator)
                   /\ Len(results) = 1 + 2 * L
                   /\ \A n \in 1..Len(parsed) :
                          /\ \E i \in NewRows : Fields(results[i])[9] = parsed[n][1] /\ Fields(results[i])[8] = "1"
                          /\ \E i \in NewRows : Fields(results[i])[9] = parsed[n][1] /\ Fields(results[i])[8] = "0"

(***************************************************************************)
(* C7.  The classification step of run_benchmark returns exactly the       *)
(* output files that pass, baseline first: a file whose upper-cased text   *)
(* holds NCCL WARN or NCCL ERROR is left out, the variant file is also     *)
(* left out when its text lacks "Parsed MSCCL", every other file is kept;  *)
(* and the step is taken only after the baseline and then the variant      *)
(* command of the descriptor have run and written their files.             *)
(***************************************************************************)
C7_ClassificationReturnsPassingFiles ==
    [][pc = "classify" =>
        /\ output_file_list' =
               (IF BaselinePasses(out_files[ncclOutputFile(filename)])
                THEN <<ncclOutputFile(filename)>> ELSE <<>>)
               \o (IF VariantPasses(out_files[mscclOutputFile(filename)])
                   THEN <<mscclOutputFile(filename)>> ELSE <<>>)
        /\ Len(commands) >= 2
        /\ commands[Len(commands) - 1].kind = "nccl" /\ commands[Len(commands) - 1].file = filename
        /\ commands[Len(commands)].kind = "msccl" /\ commands[Len(commands)].file = filename
        /\ mode = "run" => /\ out_files[ncclOutputFile(filename)] = BaselineText(idx)
                           /\ out_files[mscclOutputFile(filename)] = VariantText(idx)
        /\ commands' = commands /\ out_files' = out_files]_vars

\* the baseline was left out for a lower-case marker and the variant returned alone
C7_Witness ==
    /\ pc = "outputs"
    /\ output_file_list = <<mscclOutputFile(filename)>>
    /\ ~BaselinePasses(out_files[ncclOutputFile(filename)])
    /\ \A k \in 1..Len(out_files[ncclOutputFile(filename)]) :
           ~Contains(out_files[ncclOutputFile(filename)][k], "NCCL WARN")

\* both commands of the descriptor at j have been launched
BenchmarkedAt(j) ==
    \E i \in 1..Len(commands) : commands[i].kind = "msccl" /\ commands[i].file = listing[j].name

\* one of the two outputs of the descriptor at j fails the classification
SoftFailureAt(j) ==
    /\ mode = "run" /\ MatchingAt(j) /\ BenchmarkedAt(j)
    /\ ~BaselinePasses(BaselineText(j)) \/ ~VariantPasses(VariantText(j))

\* every data line of text has a row of file f with label lib
RowsWritten(text, f, lib) ==
    parse_test_log(text).ok =>
        \A n \in 1..Len(parse_test_log(text).output) :
            \E i \in NewRows : RowOf(i, f, lib) /\ Fields(results[i])[9] = parse_test_log(text).output[n][1]

\* ends of main() that the code gives to a later descriptor on purpose
HardFailures == {"np_mismatch", "NameError", "AssertionError", "ValueError"}

(***************************************************************************)
(* C8.  As claimed: when one output of a descriptor fails the              *)
(* classification, no row of the failed output is ever written, the rows   *)
(* of the other, successful output of that descriptor are written, and     *)
(* main() goes on to benchmark every later descriptor that matches the     *)
(* filter (runs that end in a validation failure of a later descriptor     *)
(* are left aside).                                                        *)
(***************************************************************************)
C8_SoftFailureContinues ==
    \A j \in 1..Len(listing) :
        SoftFailureAt(j) =>
            /\ ~BaselinePasses(BaselineText(j)) => ~\E i \in NewRows : RowOf(i, listing[j].name, "NCCL")
            /\ ~VariantPasses(VariantText(j)) => ~\E i \in NewRows : RowOf(i, listing[j].name, "MSCCL")
            /\ (pc = "done" /\ outcome \notin HardFailures) =>
                   /\ BaselinePasses(BaselineText(j)) => RowsWritten(BaselineText(j), listing[j].name, "NCCL")
                   /\ VariantPasses(VariantText(j)) => RowsWritten(VariantText(j), listing[j].name, "MSCCL")
                   /\ \A k \in (j + 1)..Len(listing) : MatchingAt(k) => BenchmarkedAt(k)

\* the launcher part of a command line: its tokens before the benchmark binary
LauncherPart(tokens) ==
    LET hits == {i \in 1..Len(tokens) : StartsWith(tokens[i], nccl_tests)}
    IN  IF hits = {} THEN tokens
        ELSE SubSeq(tokens, 1, (CHOOSE i \in hits : \A k \in hits : i <= k) - 1)

\* the positions where a token sequence sets MSCCL_XML_FILES
SettingsIn(tokens) == {i \in 1..(Len(tokens) - 1) : ReservedPairAt(tokens, i)}

\* the file a command line redirects its output to
RedirectOf(tokens) == tokens[Len(tokens)]

(***************************************************************************)
(* C9.  As claimed: every baseline command line holds no setting of        *)
(* MSCCL_XML_FILES, every variant command line holds exactly one, whose    *)
(* path is the input directory joined with the descriptor file being       *)
(* processed, and the two commands of a descriptor redirect to different   *)
(* files.                                                                  *)
(***************************************************************************)
C9_OnlyTheVariantSetsThePlan ==
    \A i \in 1..Len(commands) :
        LET tokens == Split(commands[i].line)
            part == LauncherPart(tokens)
        IN  /\ commands[i].kind = "nccl" => SettingsIn(part) = {}
            /\ commands[i].kind = "msccl" =>
                   /\ Cardinality(SettingsIn(part)) = 1
                   /\ \A p \in SettingsIn(part) :
                          part[p + 1] = "MSCCL_XML_FILES=" \o PathJoin(directory, commands[i].file)
                   /\ i > 1 /\ commands[i - 1].file = commands[i].file
                   /\ tokens[Len(tokens) - 1] = ">"
                   /\ RedirectOf(tokens) # RedirectOf(Split(commands[i - 1].line))

(***************************************************************************)
(* C10.  As claimed: run_benchmark maps the lower-cased collective kind    *)
(* through the table allreduce -> all_reduce_perf, allgather ->            *)
(* all_gather_perf, alltoall -> all_to_all_perf, and for any other kind    *)
(* fails with the "Unexpected algorithm" exception before it removes or    *)
(* writes an output file or launches a command.                            *)
(***************************************************************************)
C10_ClosedTable ==
    /\ \A i \in 1..Len(commands) :
           LET coll == Lower(DescriptorOf(listing[IndexOfFile(commands[i].file)]).attrs.coll)
               test == IF coll = "allreduce" THEN "all_reduce_perf"
                       ELSE IF coll = "allgather" THEN "all_gather_perf"
                       ELSE IF coll = "alltoall" THEN "all_to_all_perf" ELSE ""
           IN  test # "" /\ \E k \in 1..Len(Split(commands[i].line)) :
                               Split(commands[i].line)[k] = PathJoin(nccl_tests, test)
    /\ (/\ pc = "done" /\ idx <= Len(listing) /\ prossessed_files # <<>>
        /\ outcome \notin {"np_mismatch", "AssertionError", "ValueError"}
        /\ Lower(DescriptorOf(listing[idx]).attrs.coll) \notin {"allreduce", "allgather", "alltoall"})
           => /\ outcome = "Exception: Unexpected algorithm"
              /\ ~BenchmarkedAt(idx)

\* s is an initial part of t
IsPrefix(s, t) == Len(s) <= Len(t) /\ SubSeq(t, 1, Len(s)) = s

(***************************************************************************)
(* C11.  Across invocations of main() on one output directory, however     *)
(* each ends, every step leaves the results file in place and what it held *)
(* before the step is an initial part of what it holds after: rows are     *)
(* only appended.                                                          *)
(***************************************************************************)
C11_ResultsOnlyGrow ==
    [][(result_exists => result_exists') /\ IsPrefix(results, results')]_vars

\* a later invocation has appended rows after the rows of an earlier one
C11_Witness ==
    /\ invocation > 1
    /\ Len(results_before.lines) > 1
    /\ Len(results) > Len(results_before.lines)
    /\ IsPrefix(results_before.lines, results)

\* the row has the twelve columns of the header, filled from the descriptor of
\* one of the listed files
RowFollowsHeader(row) ==
    LET f == Fields(row)
    IN  /\ EndsWith(row, "\n")
        /\ Len(f) = Len(Fields(format_header_row(separator)))
        /\ Len(f) = 12
        /\ f[2] = filter
        /\ f[3] = time_of_test
        /\ f[6] \in {"NCCL", "MSCCL"}
        /\ f[8] \in {"0", "1"}
        /\ IntOf(f[9]).ok
        /\ \E j \in 1..Len(listing) :
               /\ f[12] = listing[j].name
               /\ f[1] = DescriptorOf(listing[j]).attrs.coll
               /\ f[4] = DescriptorOf(listing[j]).attrs.ngpus
               /\ f[5] = DescriptorOf(listing[j]).attrs.proto
               /\ f[11] = DescriptorOf(listing[j]).attrs.name

(***************************************************************************)
(* C12.  Starting without a results file, after any number of invocations  *)
(* the results file, once an invocation has passed segmentation, exists,   *)
(* begins with the 12-column header row, holds that row exactly once, and  *)
(* every later line has exactly 12 separator-delimited fields in the       *)
(* header's column order.                                                  *)
(***************************************************************************)
C12_HeaderOnceThenRows ==
    /\ pc \in {"loop", "run_benchmark", "run_nccl", "run_msccl", "classify", "outputs"} => result_exists
    /\ result_exists =>
           /\ Len(results) >= 1
           /\ results[1] = format_header_row(separator)
           /\ \A i \in 2..Len(results) :
                  results[i] # format_header_row(separator) /\ RowFollowsHeader(results[i])

\* two invocations that passed segmentation have both written rows
C12_Witness ==
    /\ invocation > 1
    /\ pc = "done" /\ outcome = "finished"
    /\ results[1] = format_header_row(separator)
    /\ Len(results_before.lines) > 1
    /\ Len(results) > Len(results_before.lines)

\* the end of the longest run of characters of s from position i on that are all
\* white space (digits = FALSE) or all digits (digits = TRUE); i - 1 when there is none
RunEnd(s, i, digits) ==
    CHOOSE j \in (i - 1)..Len(s) :
        /\ \A k \in i..j : IF digits THEN IsDigit(Char(s, k)) ELSE IsSpace(Char(s, k))
        /\ j < Len(s) => ~(IF digits THEN IsDigit(Char(s, j + 1)) ELSE IsSpace(Char(s, j + 1)))

\* the line without its optional [1,0]<stdout>: tag
Untagged(line) ==
    IF StartsWith(line, "[1,0]<stdout>:") THEN SubSeq(line, Len("[1,0]<stdout>:") + 1, Len(line)) ELSE line

\* a data line: after the optional tag, optional white space, an integer, white
\* space, an integer, white space
IsDataLine(line) ==
    LET b == Untagged(line)
        a1 == RunEnd(b, 1, FALSE)
        a2 == RunEnd(b, a1 + 1, TRUE)
        a3 == RunEnd(b, a2 + 1, FALSE)
        a4 == RunEnd(b, a3 + 1, TRUE)
    IN  a2 > a1 /\ a3 > a2 /\ a4 > a3 /\ a4 < Len(b) /\ IsSpace(Char(b, a4 + 1))

\* the columns of a data line: size count type redop root time algbw busbw #wrong
\* time algbw busbw #wrong
ColumnsOf(line) == Split(Untagged(line))

DataLinesOf(text) == {k \in 1..Len(text) : IsDataLine(text[k])}

\* the n-th data line of text
NthDataLine(text, n) ==
    text[CHOOSE k \in DataLinesOf(text) : Cardinality({j \in DataLinesOf(text) : j <= k}) = n]

\* size, out-of-place time and in-place time of every data line, in line order
RecordsOfColumns(text) ==
    [n \in 1..Cardinality(DataLinesOf(text)) |->
        <<ColumnsOf(NthDataLine(text, n))[1], ColumnsOf(NthDataLine(text, n))[6],
          ColumnsOf(NthDataLine(text, n))[10]>>]

AllColumnsPresent(text) == \A k \in DataLinesOf(text) : Len(ColumnsOf(text[k])) >= 13

\* main() is about to hand the next output file to parse_test_log
AboutToParse == pc = "outputs" /\ output_file_list # <<>>
TextToParse == out_files[Head(output_file_list)]

(***************************************************************************)
(* C13.  As claimed: for the log line of the example without the           *)
(* [1,0]<stdout>: tag parse_test_log yields the one record 1024, 75.18,    *)
(* 78.30, and in general the record of a data line holds the line's size   *)
(* column and its two time columns, with or without the tag (lines with    *)
(* all thirteen columns).                                                  *)
(***************************************************************************)
C13_RecordHoldsSizeAndTimes ==
    [][(AboutToParse /\ AllColumnsPresent(TextToParse)) =>
          /\ log_lines' = RecordsOfColumns(TextToParse)
          /\ (/\ Cardinality(DataLinesOf(TextToParse)) = 1
              /\ \A k \in DataLinesOf(TextToParse) : TextToParse[k] = NoPrefixLine)
                 => log_lines' = << <<"1024", "75.18", "78.30">> >>]_vars

(***************************************************************************)
(* C14.  parse_test_log skips every line that is not a data line: it       *)
(* raises nothing for it and yields no record for it, so that there are as *)
(* many records as data lines, and for a text without a data line (the     *)
(* empty text included) it returns the empty sequence and main() goes on.  *)
(***************************************************************************)
C14_OtherLinesAreSkipped ==
    [][(AboutToParse /\ AllColumnsPresent(TextToParse)) =>
          /\ Len(log_lines') = Cardinality(DataLinesOf(TextToParse))
          /\ DataLinesOf(TextToParse) = {} =>
                 /\ log_lines' = <<>>
                 /\ pc' = "outputs" /\ outcome' = outcome /\ stderr' = stderr
                 /\ results' = results]_vars

\* the MSCCL output, with lines but no data line, was parsed to the empty
\* sequence after the two records of the NCCL output
C14_Witness ==
    /\ pc = "outputs" /\ output_file_list = <<>>
    /\ log_lines = <<>>
    /\ Len(out_files[mscclOutputFile(filename)]) >= 3
    /\ DataLinesOf(out_files[mscclOutputFile(filename)]) = {}
    /\ VariantPasses(out_files[mscclOutputFile(filename)])
    /\ Len(results) > 1

\* some text written to the error stream holds every one of the words
StderrHolds(words) == \E i \in 1..Len(stderr) : \A w \in words : Contains(stderr[i], w)

(***************************************************************************)
(* C15.  As claimed: when the command line holds the launcher but no token *)
(* ending in nccl-tests/build and main() ends with its "not found"         *)
(* failure, the error stream holds a diagnostic with "nccl-tests" and the  *)
(* usage text.                                                             *)
(***************************************************************************)
C15_NoAnchorDiagnosticOnStderr ==
    (/\ LauncherAccepted
     /\ FirstTestsToken(TypedAfterLauncher) = 0
     /\ outcome = "nccl_tests_not_found")
        => StderrHolds({"nccl-tests", "usage"})

(***************************************************************************)
(* C16.  As claimed: when the command line holds -x MSCCL_XML_FILES=...    *)
(* after the launcher and main() ends with its reserved-variable failure,  *)
(* the error stream holds a diagnostic with "MSCCL_XML_FILES".             *)
(***************************************************************************)
C16_ConflictDiagnosticOnStderr ==
    (/\ LauncherAccepted
     /\ \E i \in 1..Len(TypedAfterLauncher) : ReservedPairAt(TypedAfterLauncher, i)
     /\ outcome = "reserved_variable")
        => StderrHolds({"MSCCL_XML_FILES"})

(***************************************************************************)
(* C17.  As claimed: when no token of the command line ends in "mpirun",   *)
(* with or without tokens after the script's own options, the program ends *)
(* before segmentation, the error stream holds the usage text and a        *)
(* mention of mpirun, no output directory and no results file is created   *)
(* and nothing is launched.                                                *)
(***************************************************************************)
C17_NoLauncherUsageOnStderr ==
    (mpirun_index(argv_rest) = 0 /\ pc = "done")
        => /\ StderrHolds({"usage", "mpirun"})
           /\ mpirun = "" /\ mpirun_args = <<>> /\ nccl_tests = ""
           /\ ~dir_exists /\ ~result_exists /\ results = <<>>
           /\ commands = <<>>

\* the positions of -np in a token sequence
NpPositions(tokens) == {p \in 1..Len(tokens) : tokens[p] = "-np"}

(***************************************************************************)
(* C18.  Every command line run_benchmark builds, baseline and variant,    *)
(* holds exactly one -np among its launcher options, followed by the ngpus *)
(* attribute of the descriptor being processed, whether the user gave no   *)
(* -np, one -np or several -np pairs.                                      *)
(***************************************************************************)
C18_OneNpFromDescriptor ==
    \A i \in 1..Len(commands) :
        LET part == LauncherPart(Split(commands[i].line))
        IN  /\ Cardinality(NpPositions(part)) = 1
            /\ \A p \in NpPositions(part) :
                   /\ p < Len(part)
                   /\ part[p + 1] = DescriptorOf(listing[IndexOfFile(commands[i].file)]).attrs.ngpus

\* both commands of a descriptor were built for a command line with two -np pairs
C18_Witness ==
    /\ Len(commands) >= 2
    /\ Cardinality(NpPositions(argv_rest)) = 2
    /\ Cardinality(NpPositions(Split(commands[2].line))) = 1

\* the launcher token is not a resolvable executable: not on the search path when
\* it has no path separator, not an existing executable file when it has one
LauncherUnresolvable ==
    /\ mpirun_index(argv_rest) = 1
    /\ IF ~Contains(argv_rest[1], "/") THEN ~env.which ELSE ~(env.exists /\ env.xok)

(***************************************************************************)
(* C19.  As claimed: in run mode, when the launcher token is not a         *)
(* resolvable executable, main() ends with the "must be a valid            *)
(* executable" diagnostic before any command is launched and before the    *)
(* results file is created.                                                *)
(***************************************************************************)
C19_UnresolvableLauncherStops ==
    (mode = "run" /\ LauncherUnresolvable)
        => /\ pc \in {"start", "check_mpirun", "done"}
           /\ commands = <<>>
           /\ result_exists = results_before.exists /\ results = results_before.lines
           /\ pc = "done" =>
                  /\ outcome = "mpirun_invalid"
                  /\ \E i \in 1..Len(stdout) : Contains(stdout[i], "must be a valid executable")

\* what the command of the given kind leaves in its output file for the current descriptor
CompletedOutput(kind) ==
    IF mode = "test"
    THEN IF kind = "nccl" THEN exampleOutput
         ELSE <<TestModeParsedLine(filename) \o exampleOutput[1]>> \o Tail(exampleOutput)
    ELSE IF kind = "nccl" THEN listing[idx].nccl_out ELSE listing[idx].msccl_out

\* the output file of the current descriptor's command of the given kind holds
\* the whole output of that command
OutputComplete(fs, kind) ==
    LET path == IF kind = "nccl" THEN ncclOutputFile(filename) ELSE mscclOutputFile(filename)
    IN  path \in DOMAIN fs /\ fs[path] = CompletedOutput(kind)

\* the last two commands are the baseline and then the variant of the current descriptor
BothCommandsRan ==
    /\ Len(commands) >= 2
    /\ commands[Len(commands) - 1].kind = "nccl" /\ commands[Len(commands) - 1].file = filename
    /\ commands[Len(commands)].kind = "msccl" /\ commands[Len(commands)].file = filename

(***************************************************************************)
(* C20.  Processing is strictly sequential: commands are launched one at   *)
(* a time; the variant command of a descriptor is launched only after its  *)
(* baseline command has completed; the two outputs are classified and      *)
(* parsed, and rows appended, only after both commands have completed; and *)
(* the baseline command of a descriptor is launched only when every file   *)
(* the previous descriptor returned has been turned into rows.             *)
(***************************************************************************)
C20_StrictlySequential ==
    [][ /\ commands' # commands =>
            /\ Len(commands') = Len(commands) + 1 /\ SubSeq(commands', 1, Len(commands)) = commands
            /\ commands'[Len(commands')].file = filename
            /\ output_file_list = <<>> /\ results' = results
            /\ commands'[Len(commands')].kind = "nccl" =>
                   /\ commands # <<>> =>
                          /\ commands[Len(commands)].kind = "msccl"
                          /\ IndexOfFile(commands[Len(commands)].file) < idx
                   /\ OutputComplete(out_files', "nccl")
            /\ commands'[Len(commands')].kind = "msccl" =>
                   /\ commands # <<>>
                   /\ commands[Len(commands)].kind = "nccl" /\ commands[Len(commands)].file = filename
                   /\ OutputComplete(out_files, "nccl") /\ OutputComplete(out_files', "nccl")
                   /\ OutputComplete(out_files', "msccl")
        /\ (output_file_list' # output_file_list \/ (results' # results /\ pc # "prepare")) =>
            /\ commands' = commands /\ out_files' = out_files
            /\ BothCommandsRan
            /\ OutputComplete(out_files, "nccl") /\ OutputComplete(out_files, "msccl")
            /\ \A i \in (Len(results) + 1)..Len(results') : RowNamesFile(results'[i], filename)
      ]_vars

\* the baseline command of a second descriptor is launched after rows of the
\* first descriptor were appended
C20_Witness ==
    /\ Len(commands) = 3
    /\ commands[3].kind = "nccl" /\ commands[3].file # commands[1].file
    /\ \E i \in NewRows : RowNamesFile(results[i], commands[1].file)

\* a helper-script token stands directly before the first benchmark-directory
\* token of t and is not the value of a -np
HelperGiven(t) ==
    LET k == FirstTestsToken(t)
    IN  /\ k > 1 /\ EndsWith(t[k - 1], NCCL_LAUNCH_SUFFIX)
        /\ k > 2 => t[k - 2] # "-np"

\* the launcher options of the command line of the given kind for descriptor
\* file f: the launcher, the -np of the descriptor, the user's options and, in
\* the variant, the injected setting
OptionsOf(kind, f) ==
    <<mpirun, "-np", DescriptorOf(listing[IndexOfFile(f)]).attrs.ngpus>> \o mpirun_args
    \o (IF kind = "msccl" THEN <<"-x", "MSCCL_XML_FILES=" \o PathJoin(directory, f)>> ELSE <<>>)

(***************************************************************************)
(* C21.  When a token ending in launcher.sh stands directly before the     *)
(* first benchmark-directory token, the part of each command line before   *)
(* the benchmark binary holds that token exactly once, as its last token,  *)
(* after all launcher options and, in the variant, after the injected      *)
(* MSCCL_XML_FILES setting; when no such token is given that part is the   *)
(* launcher options alone; and a command line that follows the usage line  *)
(* is segmented with or without the token.                                 *)
(***************************************************************************)
C21_HelperScriptCarriedThrough ==
    LET t == TypedAfterLauncher
        k == FirstTestsToken(t)
    IN  /\ (ProbesPass /\ k > 0 /\ PlainPrefix(t, k)) => ~SegmentationFailed
        /\ \A i \in 1..Len(commands) :
               LET tokens == Split(commands[i].line)
                   part == LauncherPart(tokens)
                   options == OptionsOf(commands[i].kind, commands[i].file)
               IN  /\ Len(part) < Len(tokens)
                   /\ tokens[Len(part) + 1] = PathJoin(nccl_tests, ncclPerfTest(DescriptorOf(listing[IndexOfFile(commands[i].file)]).attrs))
                   /\ IF HelperGiven(t)
                      THEN /\ part = options \o <<t[k - 1]>>
                           /\ Cardinality({p \in 1..Len(part) : part[p] = t[k - 1]}) = 1
                      ELSE part = options

\* both commands were built for a command line with launcher options and a helper script
C21_Witness ==
    /\ Len(commands) >= 2
    /\ HelperGiven(TypedAfterLauncher)
    /\ mpirun_args # <<>>
    /\ nccl_launch = "msccl_ndv2_launcher.sh"

\* both commands were built for a command line without a helper script
C21_WitnessWithout ==
    /\ Len(commands) >= 2
    /\ ~HelperGiven(TypedAfterLauncher)
    /\ mpirun_args # <<>>

\* the rows a step appended to the results file
Appended == SubSeq(results', Len(results) + 1, Len(results'))

\* main() turns the output file at the head of output_file_list into rows and
\* goes on
RowsStep == pc = "outputs" /\ output_file_list # <<>> /\ pc' = "outputs"

(***************************************************************************)
(* C22.  As claimed: for each record parsed from a successful baseline     *)
(* output file main() writes exactly two rows, flag 0 with the             *)
(* out-of-place time and flag 1 with the in-place time, whatever the       *)
(* descriptor's inplace attribute; for each record parsed from a           *)
(* successful variant output file it writes exactly one row, whose flag is *)
(* the descriptor's inplace attribute and whose time is the column of that *)
(* flag.                                                                   *)
(***************************************************************************)
C22_TwoBaselineRowsOneVariantRow ==
    [][ RowsStep =>
            LET records == log_lines'
                inplace == algorithm_attributes.inplace
            IN  IF Head(output_file_list) = ncclOutputFile(filename)
                THEN /\ Len(Appended) = 2 * Len(records)
                     /\ \A n \in 1..Len(records) :
                            /\ Fields(Appended[2 * n - 1])[8] = "0"
                            /\ Fields(Appended[2 * n - 1])[10] = records[n][2]
                            /\ Fields(Appended[2 * n])[8] = "1"
                            /\ Fields(Appended[2 * n])[10] = records[n][3]
                ELSE /\ Len(Appended) = Len(records)
                     /\ \A n \in 1..Len(records) :
                            /\ Fields(Appended[n])[8] = inplace
                            /\ Fields(Appended[n])[10] = records[n][IF inplace = "1" THEN 3 ELSE 2]
      ]_vars

\* the output files main() has turned into rows before the one at the head of
\* output_file_list, in processing order (read while pc = "outputs")
RECURSIVE ProcessedUpTo(_)
ProcessedUpTo(j) ==
    IF j = 0 THEN <<>>
    ELSE ProcessedUpTo(j - 1)
         \o (IF MatchingAt(j) THEN Classified(out_files, listing[j].name) ELSE <<>>)

EarlierFiles == SubSeq(ProcessedUpTo(idx), 1, Len(ProcessedUpTo(idx)) - Len(output_file_list))

HasVersionLine(text) == \E k \in 1..Len(text) : Contains(text[k], "NCCL version")

\* the version of the most recent earlier output file with a version line, None
\* when there is no such file
EarlierVersion ==
    LET hits == {k \in 1..Len(EarlierFiles) : HasVersionLine(out_files[EarlierFiles[k]])}
        last == CHOOSE k \in hits : \A j \in hits : j <= k
    IN  IF hits = {} THEN None ELSE ExtractVersion(out_files[EarlierFiles[last]], None).version

\* main() is about to process a successful output file without a version line
\* that holds parsed records
NoVersionStep ==
    /\ pc = "outputs" /\ output_file_list # <<>>
    /\ ~HasVersionLine(out_files[Head(output_file_list)])
    /\ parse_test_log(out_files[Head(output_file_list)]).ok
    /\ parse_test_log(out_files[Head(output_file_list)]).output # <<>>
    /\ IntOf(algorithm_attributes.inplace).ok

(***************************************************************************)
(* C23.  As claimed: when a successful output file has no "NCCL version "  *)
(* line, the rows written for it carry the version extracted from the most *)
(* recent earlier output file that had one, at every position of the file  *)
(* in the run, the first output file processed included.                   *)
(***************************************************************************)
C23_VersionOfEarlierFile ==
    [][ NoVersionStep =>
            /\ pc' = "outputs"
            /\ Appended # <<>>
            /\ EarlierVersion # None
            /\ \A i \in 1..Len(Appended) : Fields(Appended[i])[7] = EarlierVersion[1]
      ]_vars

(***************************************************************************)
(* C24.  As claimed: every row written for the baseline output file of a   *)
(* descriptor has Library NCCL and every row written for its variant       *)
(* output file has Library MSCCL, for every descriptor file name, names    *)
(* that contain msccl_result included.                                     *)
(***************************************************************************)
C24_LibraryNamesTheOutputFile ==
    [][ RowsStep =>
            \A i \in 1..Len(Appended) :
                Fields(Appended[i])[6] =
                    IF Head(output_file_list) = ncclOutputFile(filename) THEN "NCCL" ELSE "MSCCL"
      ]_vars

(***************************************************************************)
(* C25.  As claimed: parse_test_log raises for no text; it yields one      *)
(* record for every data line and none for any other line, also when a     *)
(* data line has fewer than eleven white-space separated tokens.           *)
(***************************************************************************)
C25_ParseNeverRaises ==
    [][AboutToParse =>
          /\ outcome' # "IndexError"
          /\ Len(log_lines') = Cardinality(DataLinesOf(TextToParse))]_vars

\* the tokens after the first benchmark-directory token of t
TailOf(t) == SubSeq(t, FirstTestsToken(t) + 1, Len(t))

\* the benchmark options of a command line: its tokens between the benchmark
\* binary and the redirection
BenchmarkOptions(tokens) == SubSeq(tokens, Len(LauncherPart(tokens)) + 2, Len(tokens) - 2)

\* what the tokens before the first benchmark-directory token (at k) and that
\* token alone decide, whatever follows it
TailUntouched(t, k) ==
    /\ Segmented => (nccl_tests = t[k] /\ nccl_tests_args = TailOf(t))
    /\ (\A i \in 1..(k - 1) : t[i] # "-np") => np_value = None
    /\ \A i \in 1..(k - 2) : (t[i] = "-np" /\ PlainPrefix(t, k) /\ Segmented) => np_value = Some(t[i + 1])
    /\ outcome = "reserved_variable" => \E i \in 1..(k - 2) : ReservedPairAt(t, i)
    /\ outcome = "nccl_tests_not_found" => \E i \in 1..(k - 2) : EndsWith(t[i], NCCL_LAUNCH_SUFFIX)
    /\ ~(SegmentationFailed /\ outcome = "IndexError")
    /\ \A i \in 1..Len(commands) :
           LET tokens == Split(commands[i].line)
           IN  /\ BenchmarkOptions(tokens) = TailOf(t)
               /\ tokens[Len(tokens) - 1] = ">"

(***************************************************************************)
(* C26.  As claimed: the tokens that follow the first benchmark-directory  *)
(* token are never inspected: they cause no error, do not change the       *)
(* retained -np value, and are the benchmark options of both command       *)
(* lines, unchanged and in order.                                          *)
(***************************************************************************)
C26_TailNeverInspected ==
    (/\ LauncherAccepted
     /\ FirstTestsToken(TypedAfterLauncher) > 0
     /\ TailOf(TypedAfterLauncher) # <<>>)
        => TailUntouched(TypedAfterLauncher, FirstTestsToken(TypedAfterLauncher))

(***************************************************************************)
(* C26 as amended: when the first benchmark-directory token does not stand *)
(* directly after a -np, the tokens that follow it cause no error, do not  *)
(* change the retained -np value, and are the benchmark options of both    *)
(* command lines, unchanged and in order.                                  *)
(***************************************************************************)
C26_TailAfterScanEnd ==
    (/\ LauncherAccepted
     /\ FirstTestsToken(TypedAfterLauncher) > 0
     /\ TailOf(TypedAfterLauncher) # <<>>
     /\ FirstTestsToken(TypedAfterLauncher) > 1 =>
            TypedAfterLauncher[FirstTestsToken(TypedAfterLauncher) - 1] # "-np")
        => TailUntouched(TypedAfterLauncher, FirstTestsToken(TypedAfterLauncher))

\* both commands were built with a tail that holds a -np pair or a reserved pair
C26_Witness ==
    /\ Len(commands) >= 2
    /\ FirstTestsToken(TypedAfterLauncher) > 0
    /\ \E i \in 1..Len(TailOf(TypedAfterLauncher)) :
           TailOf(TypedAfterLauncher)[i] = "-np" \/ ReservedPairAt(TailOf(TypedAfterLauncher), i)
    /\ BenchmarkOptions(Split(commands[2].line)) = TailOf(TypedAfterLauncher)

\* both logs of the pair are there
BothLogs(p) == <<p[1], p[2], main_name>> \in DOMAIN data /\ <<p[1], p[2], baseline_name>> \in DOMAIN data

\* the loops have dealt with the pair at position n
Visited(n) == n < pair_idx \/ (graph_pc = "done" /\ graph_outcome = "speedups_computed")

\* a warning that names the pair
WarnedAbout(p) ==
    \E i \in 1..Len(graph_stdout) :
        /\ StartsWith(graph_stdout[i], "WARNING")
        /\ Contains(graph_stdout[i], p[1] \o "/" \o p[2] \o " have different sizes")

(***************************************************************************)
(* C27.  As claimed: a speedup entry exists for a (configuration,          *)
(* collective) pair if and only if both the msccl and the nccl log exist   *)
(* for the pair and their size sequences are equal, in length and in every *)
(* value; a pair with a missing log is skipped silently, a pair whose size *)
(* sequences differ is skipped with a warning, and in both cases the loop  *)
(* goes on with the remaining pairs without raising.                       *)
(***************************************************************************)
C27_SpeedupIffEqualSizes ==
    /\ graph_outcome \notin {"ValueError", "TypeError"}
    /\ graph_pc # "start" =>
           \A n \in 1..Len(pairs) :
               LET p == pairs[n]
                   equal == BothLogs(p) /\ data[<<p[1], p[2], main_name>>].sizes = data[<<p[1], p[2], baseline_name>>].sizes
               IN  Visited(n) =>
                       /\ p \in DOMAIN speedups <=> equal
                       /\ ~BothLogs(p) => ~WarnedAbout(p)
                       /\ (BothLogs(p) /\ ~equal) => WarnedAbout(p)

====
